---- MODULE Spec2Model ----
(***************************************************************************)
(* A model of the tutorial notebooks of ipta-2018-workshop as state        *)
(* machines: a Jupyter kernel executes the code cells of a notebook one    *)
(* at a time; the state is the kernel's namespace, the files of the        *)
(* working directory and the child processes the cells launch.             *)
(*                                                                         *)
(*   SpecCmd   python/Faking_it_at_the_command_line.ipynb, top to bottom   *)
(*   SpecParse the parsing statements of its readfile cell, over a         *)
(*             bounded set of captured stdout texts                        *)
(*   SpecNoise the noise-file cells of stochastic_gwb_analysis.ipynb       *)
(*   SpecGwb   gw_detection/stochastic_gwb_analysis.ipynb, top to bottom   *)
(*   SpecCw    gw_detection/cw_exercises.ipynb, from its PTA cell on       *)
(*   SpecRun   the three notebooks of gw_detection/, statement by          *)
(*             statement: names bound, files written and read, order       *)
(*   SpecImp   the import tutorial unnamed/part_000, cells in any order    *)
(*   SpecCwFn  calls of the functions make_fake_pulsar and spittime that   *)
(*             cw_exercises.ipynb defines                                  *)
(*                                                                         *)
(* Byte strings are sequences of one-character strings.                    *)
(***************************************************************************)
EXTENDS Integers, Sequences, FiniteSets, TLC

VARIABLES
    pc,        \* the statement the kernel executes next
    ns,        \* names bound in the kernel namespace
    files,     \* files of the working directory
    lsOut,     \* what the !ls cells printed, one listing per execution
    procs,     \* child processes launched so far, indexed by launch order
    p,         \* the Popen object bound to p (an index into procs), 0 if none
    commOut,   \* stdout bytes communicate() has read so far
    commErr,   \* stderr bytes communicate() has read so far
    out,       \* the value bound to out
    err,       \* the value bound to err
    result,    \* the value bound to result
    resIdx,    \* position of the for loop in result
    freq,      \* the value bound to freq
    printed,   \* lines printed by the readfile cell
    cellErr,   \* the exception that ended the readfile cell, "" if none
    \* gw_detection/stochastic_gwb_analysis.ipynb
    gpc,        \* the statement the kernel executes next
    gErr,       \* the exception that ended the run, "" if none
    psrlist,    \* the pulsar names of psr_names.npy
    dirlist,    \* the names of the files of ./dataset1/
    parfiles,   \* the value bound to parfiles
    timfiles,   \* the value bound to timfiles
    psrs,       \* the list of Pulsar objects
    warned,     \* the pulsars named in "WARNING: Could not find pulsar distance"
    noiseJson,  \* the files of ./dataset1/noise/ : name -> members
    noisefiles, \* the value bound to noisefiles
    nfIdx,      \* position of the noise-file loop in noisefiles
    params,     \* the noise dictionary
    priors,     \* the parameter classes the prior cell binds
    sigs,       \* the signal classes the signal cell binds
    fullModel,  \* the signals summed into the full model s
    ptaNames,   \* pta.param_names
    defaults,   \* values given to constant parameters by set_default_params
    x0,         \* the value bound to x0
    ndim,       \* the value bound to ndim
    sampler,    \* the PTSampler object: its ndim and outDir
    chainFile,  \* rows of ./chains/dataset1_crn/chain_1.txt
    chain,      \* the matrix bound to chain
    burn,       \* the value bound to burn
    plotted,    \* the columns handed to plot, hist and percentile
    \* gw_detection/cw_exercises.ipynb, from the PTA cell on
    cpc,        \* the statement the kernel executes next
    cErr,       \* the exception that ended the run, "" if none
    cwPsrs,     \* the list psrs, as the reader has filled it
    cwNames,    \* pta.param_names
    cwNdim,     \* the value bound to ndim
    cwSampler,  \* the PTSampler object: its ndim and outDir
    paramsTxt,  \* chains//params.txt : whether it exists, and its text
    cwChainFile, \* rows of chains//chain_1.txt
    cwChain,    \* the matrix bound to chain
    cwParams,   \* the list bound to params
    cwBurn,     \* the value bound to burn
    cwPlotted,  \* what the calls of plot_param have drawn
    \* a notebook of gw_detection/ run top to bottom, statement by statement
    nb,         \* the notebook the kernel runs
    kCell,      \* the cell the kernel is in, counting code cells from 1
    kStmt,      \* the statement of that cell the kernel executes next
    kMode,      \* "ready", "sampling", "raised", "halted" or "done"
    bound,      \* names bound in the kernel namespace
    hasPsrs,    \* whether the notebook's list of pulsars is non-empty
    disk,       \* the chain and parameter-name files: state and writer
    ran,        \* the statements executed so far, in order
    \* the import tutorial (unnamed/part_000), cells run in any order
    iSel,       \* the selected cell, counting code cells from 1
    inames,     \* names bound in the kernel namespace
    ires,       \* per cell, the result of its last execution since the restart
    ipassed,    \* k if the executions since the restart are cells 1..k in order, else -1
    ijumps,     \* how often the reader has selected a cell by hand
    irestarts,  \* kernel restarts so far
    iprev,      \* ires of the session the last restart ended, if that
                \* session was one pass through all cells in order
    \* calls of the functions of cw_exercises
    fnFiles,    \* the files written so far: path -> text
    fnCall,     \* the last call: function, argument, what it returned or raised
    fnCalls     \* calls so far

cmdVars == <<pc, ns, files, lsOut, procs, p, commOut, commErr, out, err,
             result, resIdx, freq, printed, cellErr>>

gwbVars == <<gpc, gErr, psrlist, dirlist, parfiles, timfiles, psrs, warned, noiseJson,
             noisefiles, nfIdx, params, priors, sigs, fullModel, ptaNames,
             defaults,
             x0, ndim, sampler, chainFile, chain, burn, plotted>>

cwVars == <<cpc, cErr, cwPsrs, cwNames, cwNdim, cwSampler, paramsTxt,
            cwChainFile, cwChain, cwParams, cwBurn, cwPlotted>>

runVars == <<nb, kCell, kStmt, kMode, bound, hasPsrs, disk, ran>>

impVars == <<iSel, inames, ires, ipassed, ijumps, irestarts, iprev>>

fnVars == <<fnFiles, fnCall, fnCalls>>

vars == <<cmdVars, gwbVars, cwVars, runVars, impVars, fnVars>>

\* each specification runs one notebook: the variables of the others rest
notCmd == <<gwbVars, cwVars, runVars, impVars, fnVars>>
notGwb == <<cmdVars, cwVars, runVars, impVars, fnVars>>
notCw == <<cmdVars, gwbVars, runVars, impVars, fnVars>>
notRun == <<cmdVars, gwbVars, cwVars, impVars, fnVars>>
notImp == <<cmdVars, gwbVars, cwVars, runVars, fnVars>>
notFn == <<cmdVars, gwbVars, cwVars, runVars, impVars>>

CmdIdle ==
    /\ pc = "idle"
    /\ ns = {}
    /\ files = {}
    /\ lsOut = <<>>
    /\ procs = <<>>
    /\ p = 0
    /\ commOut = <<>>
    /\ commErr = <<>>
    /\ out = <<>>
    /\ err = <<>>
    /\ result = <<>>
    /\ resIdx = 0
    /\ freq = <<>>
    /\ printed = <<>>
    /\ cellErr = ""

\* the kernel of stochastic_gwb_analysis before it has bound anything
GwbStart ==
    /\ gErr = ""
    /\ psrlist = {}
    /\ dirlist = {}
    /\ parfiles = <<>>
    /\ timfiles = <<>>
    /\ psrs = <<>>
    /\ warned = <<>>
    /\ noisefiles = <<>>
    /\ nfIdx = 0
    /\ params = <<>>
    /\ priors = <<>>
    /\ sigs = <<>>
    /\ fullModel = <<>>
    /\ ptaNames = <<>>
    /\ defaults = <<>>
    /\ x0 = <<>>
    /\ ndim = 0
    /\ sampler = <<>>
    /\ chainFile = <<>>
    /\ chain = <<>>
    /\ burn = 0
    /\ plotted = <<>>

GwbIdle ==
    /\ gpc = "idle"
    /\ noiseJson = <<>>
    /\ GwbStart

\* the kernel of cw_exercises before its PTA cell
CwStart ==
    /\ cErr = ""
    /\ cwNames = <<>>
    /\ cwNdim = 0
    /\ cwSampler = <<>>
    /\ paramsTxt = [exists |-> FALSE, text |-> <<>>]
    /\ cwChainFile = <<>>
    /\ cwChain = <<>>
    /\ cwParams = <<>>
    /\ cwBurn = 0
    /\ cwPlotted = <<>>

CwIdle ==
    /\ cpc = "idle"
    /\ cwPsrs = <<>>
    /\ CwStart

RunIdle ==
    /\ nb = "none"
    /\ kCell = 0
    /\ kStmt = 0
    /\ kMode = "idle"
    /\ bound = {}
    /\ hasPsrs = FALSE
    /\ disk = <<>>
    /\ ran = <<>>

ImpIdle ==
    /\ iSel = 0
    /\ inames = {}
    /\ ires = <<>>
    /\ ipassed = 0
    /\ ijumps = 0
    /\ irestarts = 0
    /\ iprev = <<>>

FnIdle ==
    /\ fnFiles = <<>>
    /\ fnCall = [fn |-> ""]
    /\ fnCalls = 0

-----------------------------------------------------------------------------
(* Bounds of the model. *)

\* longest behaviour of a child process, in operations (writes, files)
MaxOps == 2
\* chunks a pipe holds before a write to it blocks
PipeCap == 1
\* lines of captured stdout the parsing statements are checked on
MaxLines == 2

-----------------------------------------------------------------------------
(* Byte-string helpers: what bytes.split, bytes.strip, `in`, float() and   *)
(* "%0.1f" do.                                                             *)

Whitespace == {" ", "\t", "\n", "\r"}

DigitChars == <<"0", "1", "2", "3", "4", "5", "6", "7", "8", "9">>

IsDigit(c) == \E i \in 1..10 : DigitChars[i] = c

DigitVal(c) == (CHOOSE i \in 1..10 : DigitChars[i] = c) - 1

\* s.split(sep) for a one-byte separator: always at least one piece
Split(s, sep) ==
    LET RECURSIVE F(_, _, _)
        F(i, cur, acc) ==
            IF i > Len(s) THEN Append(acc, cur)
            ELSE IF s[i] = sep THEN F(i + 1, <<>>, Append(acc, cur))
            ELSE F(i + 1, Append(cur, s[i]), acc)
    IN F(1, <<>>, <<>>)

\* sub in s
Contains(s, sub) ==
    \E i \in 1..(Len(s) - Len(sub) + 1) : SubSeq(s, i, i + Len(sub) - 1) = sub

\* s.strip()
Strip(s) ==
    LET keep == {i \in 1..Len(s) : s[i] \notin Whitespace}
    IN IF keep = {} THEN <<>>
       ELSE SubSeq(s, CHOOSE i \in keep : \A j \in keep : i <= j,
                      CHOOSE i \in keep : \A j \in keep : i >= j)

RECURSIVE Pow10(_)
Pow10(k) == IF k = 0 THEN 1 ELSE 10 * Pow10(k - 1)

RECURSIVE DigitsVal(_)
DigitsVal(s) ==
    IF s = <<>> THEN 0
    ELSE 10 * DigitsVal(SubSeq(s, 1, Len(s) - 1)) + DigitVal(s[Len(s)])

RECURSIVE IntToChars(_)
IntToChars(n) ==
    IF n < 10 THEN <<DigitChars[n + 1]>>
    ELSE Append(IntToChars(n \div 10), DigitChars[(n % 10) + 1])

\* float(s) for a text of digits and points: the number num / 10^k, or the
\* ValueError float raises for a text that is no number
ParseFloatBare(s) ==
    LET dots == {i \in 1..Len(s) : s[i] = "."}
        wellFormed == /\ s # <<>>
                      /\ \A i \in 1..Len(s) : IsDigit(s[i]) \/ s[i] = "."
                      /\ Cardinality(dots) <= 1
                      /\ \E i \in 1..Len(s) : IsDigit(s[i])
        d == IF dots = {} THEN Len(s) + 1 ELSE CHOOSE i \in dots : TRUE
        intPart == SubSeq(s, 1, d - 1)
        fracPart == SubSeq(s, d + 1, Len(s))
    IN IF ~wellFormed THEN [ok |-> FALSE, num |-> 0, k |-> 0]
       ELSE [ok |-> TRUE,
             num |-> DigitsVal(intPart) * Pow10(Len(fracPart)) + DigitsVal(fracPart),
             k |-> Len(fracPart)]

\* float() ignores whitespace around the number
ParseFloat(s) == ParseFloatBare(Strip(s))

\* "%0.1f" % x for x = num / 10^k, rounded to the nearest tenth. A tie is
\* rounded to the even tenth, as for a tie that is exact in binary.
FormatTenths(x) ==
    LET tenths ==
            IF x.k = 0 THEN x.num * 10
            ELSE IF x.k = 1 THEN x.num
            ELSE LET unit == Pow10(x.k - 1)
                     q == x.num \div unit
                     r == x.num % unit
                 IN IF 2 * r > unit THEN q + 1
                    ELSE IF 2 * r < unit THEN q
                    ELSE IF q % 2 = 0 THEN q ELSE q + 1
    IN IntToChars(tenths \div 10) \o <<".", DigitChars[(tenths % 10) + 1]>>

-----------------------------------------------------------------------------
(* python/Faking_it_at_the_command_line.ipynb                              *)

Fits == "puppi_57166_J1404+12_1326_subs_0001.fits"

\* the files a prepfold run writes, in the order it writes them
PrepfoldFiles == <<"Cand.pfd", "Cand.pfd.ps", "Cand.pfd.bestprof", "Cand.pfd.inf">>

Label == <<"C", "e", "n", "t", "r", "a", "l", " ", "f", "r", "e", "q">>

FreqPrefix == <<"Frequency=">>

ExitCodes == {0, 1}

\* lines a readfile run may print in the whole-notebook model
CmdLines == {Label \o <<"=", "7">>, Label}

\* one operation of a child: write a chunk to stdout or stderr, or create
\* its next output file
ChildOps(cmd) ==
    IF cmd = "prepfold"
    THEN {<<"out", <<"x", "\n">>>>, <<"err", <<"w", "\n">>>>, <<"file", <<>>>>}
    ELSE {<<"out", l \o <<"\n">>>> : l \in CmdLines} \cup {<<"err", <<"w", "\n">>>>}

RECURSIVE SeqsUpTo(_, _)
SeqsUpTo(S, n) ==
    IF n = 0 THEN {<<>>}
    ELSE LET shorter == SeqsUpTo(S, n - 1)
         IN shorter \cup {Append(s, x) : s \in {t \in shorter : Len(t) = n - 1}, x \in S}

\* what an external command may do: any sequence of at most MaxOps operations
Scripts(cmd) == SeqsUpTo(ChildOps(cmd), MaxOps)

NewProc(cmd, script) ==
    [cmd |-> cmd, stdout |-> "PIPE", stderr |-> "PIPE", state |-> "running",
     rc |-> -1, script |-> script, pipeOut |-> <<>>, pipeErr |-> <<>>,
     wroteOut |-> <<>>, wroteErr |-> <<>>, created |-> {}]

\* subprocess.Popen([...], stdout=PIPE, stderr=PIPE): starts the child and
\* returns at once
Popen(cmd, script) ==
    /\ procs' = Append(procs, NewProc(cmd, script))
    /\ p' = Len(procs) + 1
    /\ ns' = ns \cup {"p"}

InitCmd ==
    /\ pc = "c1"
    /\ ns = {}
    /\ files \in {{}, {Fits}}
    /\ lsOut = <<>>
    /\ procs = <<>>
    /\ p = 0
    /\ commOut = <<>>
    /\ commErr = <<>>
    /\ out = <<>>
    /\ err = <<>>
    /\ result = <<>>
    /\ resIdx = 0
    /\ freq = <<>>
    /\ printed = <<>>
    /\ cellErr = ""
    /\ GwbIdle
    /\ CwIdle
    /\ RunIdle
    /\ ImpIdle
    /\ FnIdle

\* import subprocess
ImportSubprocess ==
    /\ pc = "c1"
    /\ pc' = "c2"
    /\ ns' = ns \cup {"subprocess"}
    /\ UNCHANGED notCmd
    /\ UNCHANGED <<files, lsOut, procs, p, commOut, commErr, out, err,
                   result, resIdx, freq, printed, cellErr>>

\* !ls : the shell command runs to its end and prints the directory
Ls(at, next) ==
    /\ pc = at
    /\ pc' = next
    /\ lsOut' = Append(lsOut, files)
    /\ UNCHANGED notCmd
    /\ UNCHANGED <<ns, files, procs, p, commOut, commErr, out, err,
                   result, resIdx, freq, printed, cellErr>>

LsFirst == Ls("c2", "c3")

\* !wget .../puppi_57166_J1404+12_1326_subs_0001.fits : the download
\* succeeds or fails
Wget ==
    /\ pc = "c3"
    /\ pc' = "c4"
    /\ \/ files' = files \cup {Fits}
       \/ files' = files
    /\ UNCHANGED notCmd
    /\ UNCHANGED <<ns, lsOut, procs, p, commOut, commErr, out, err,
                   result, resIdx, freq, printed, cellErr>>

\* filename = 'puppi_57166_J1404+12_1326_subs_0001.fits'
SetFilename ==
    /\ pc = "c4"
    /\ pc' = "c5"
    /\ ns' = ns \cup {"filename"}
    /\ UNCHANGED notCmd
    /\ UNCHANGED <<files, lsOut, procs, p, commOut, commErr, out, err,
                   result, resIdx, freq, printed, cellErr>>

\* help(subprocess.Popen)
HelpPopen ==
    /\ pc = "c5"
    /\ pc' = "c6"
    /\ UNCHANGED notCmd
    /\ UNCHANGED <<ns, files, lsOut, procs, p, commOut, commErr, out, err,
                   result, resIdx, freq, printed, cellErr>>

\* p = subprocess.Popen(['prepfold', filename, ...], stdout=PIPE, stderr=PIPE)
PopenPrepfold ==
    /\ pc = "c6"
    /\ pc' = "c7"
    /\ \E script \in Scripts("prepfold") : Popen("prepfold", script)
    /\ UNCHANGED notCmd
    /\ UNCHANGED <<files, lsOut, commOut, commErr, out, err,
                   result, resIdx, freq, printed, cellErr>>

\* p = subprocess.Popen(['readfile', filename], stdout=PIPE, stderr=PIPE)
PopenReadfile ==
    /\ pc = "c9"
    /\ pc' = "c9_call"
    /\ \E script \in Scripts("readfile") : Popen("readfile", script)
    /\ UNCHANGED notCmd
    /\ UNCHANGED <<files, lsOut, commOut, commErr, out, err,
                   result, resIdx, freq, printed, cellErr>>

\* out, err = p.communicate() : the call starts reading both pipes
CommunicateCall ==
    /\ pc \in {"c7", "c9_call"}
    /\ pc' = IF pc = "c7" THEN "c7_comm" ELSE "c9_comm"
    /\ commOut' = <<>>
    /\ commErr' = <<>>
    /\ UNCHANGED notCmd
    /\ UNCHANGED <<ns, files, lsOut, procs, p, out, err,
                   result, resIdx, freq, printed, cellErr>>

\* communicate() takes what the child has written off a pipe
CommunicateRead ==
    /\ pc \in {"c7_comm", "c9_comm"}
    /\ \/ /\ procs[p].pipeOut # <<>>
          /\ commOut' = commOut \o Head(procs[p].pipeOut)
          /\ procs' = [procs EXCEPT ![p].pipeOut = Tail(@)]
          /\ UNCHANGED commErr
       \/ /\ procs[p].pipeErr # <<>>
          /\ commErr' = commErr \o Head(procs[p].pipeErr)
          /\ procs' = [procs EXCEPT ![p].pipeErr = Tail(@)]
          /\ UNCHANGED commOut
    /\ UNCHANGED notCmd
    /\ UNCHANGED <<pc, ns, files, lsOut, p, out, err,
                   result, resIdx, freq, printed, cellErr>>

\* communicate() has no timeout: it returns at end of file on both pipes,
\* after the child has exited
CommunicateMayReturnNoWait(proc) == TRUE

\* a variant that waits for the exit only and leaves what is in the pipes
CommunicateMayReturnOnExit(proc) == proc.state = "exited"

CommunicateMayReturn(proc) ==
    /\ proc.state = "exited"
    /\ proc.pipeOut = <<>>
    /\ proc.pipeErr = <<>>

\* a variant that looks at the exit status and launches the command again
CommunicateReturnRetry ==
    /\ pc \in {"c7_comm", "c9_comm"}
    /\ CommunicateMayReturn(procs[p])
    /\ pc' = IF procs[p].rc # 0
             THEN (IF pc = "c7_comm" THEN "c6" ELSE "c9")
             ELSE (IF pc = "c7_comm" THEN "c8" ELSE "c9_split")
    /\ out' = commOut
    /\ err' = commErr
    /\ ns' = ns \cup {"out", "err"}
    /\ UNCHANGED notCmd
    /\ UNCHANGED <<files, lsOut, procs, p, commOut, commErr,
                   result, resIdx, freq, printed, cellErr>>

\* out, err = p.communicate() returns: out and err are bound, and the next
\* statement runs whatever the exit status and whatever err holds
CommunicateReturn ==
    /\ pc \in {"c7_comm", "c9_comm"}
    /\ CommunicateMayReturn(procs[p])
    /\ pc' = IF pc = "c7_comm" THEN "c8" ELSE "c9_split"
    /\ out' = commOut
    /\ err' = commErr
    /\ ns' = ns \cup {"out", "err"}
    /\ UNCHANGED notCmd
    /\ UNCHANGED <<files, lsOut, procs, p, commOut, commErr,
                   result, resIdx, freq, printed, cellErr>>

LsSecond == Ls("c8", "c9")

\* the child does its next operation; a write to a full pipe blocks
ChildStep ==
    \E i \in 1..Len(procs) :
        /\ procs[i].state = "running"
        /\ procs[i].script # <<>>
        /\ LET op == Head(procs[i].script)
               rest == Tail(procs[i].script)
           IN \/ /\ op[1] = "out"
                 /\ Len(procs[i].pipeOut) < PipeCap
                 /\ procs' = [procs EXCEPT ![i].script = rest,
                                           ![i].pipeOut = Append(@, op[2]),
                                           ![i].wroteOut = @ \o op[2]]
                 /\ UNCHANGED files
              \/ /\ op[1] = "err"
                 /\ Len(procs[i].pipeErr) < PipeCap
                 /\ procs' = [procs EXCEPT ![i].script = rest,
                                           ![i].pipeErr = Append(@, op[2]),
                                           ![i].wroteErr = @ \o op[2]]
                 /\ UNCHANGED files
              \/ /\ op[1] = "file"
                 /\ LET f == PrepfoldFiles[Cardinality(procs[i].created) + 1]
                    IN /\ procs' = [procs EXCEPT ![i].script = rest,
                                                 ![i].created = @ \cup {f}]
                       /\ files' = files \cup {f}
        /\ UNCHANGED notCmd
        /\ UNCHANGED <<pc, ns, lsOut, p, commOut, commErr, out, err,
                       result, resIdx, freq, printed, cellErr>>

\* the child exits with some status, which closes its ends of the pipes
ChildExit ==
    \E i \in 1..Len(procs) :
        /\ procs[i].state = "running"
        /\ procs[i].script = <<>>
        /\ \E rc \in ExitCodes :
               procs' = [procs EXCEPT ![i].state = "exited", ![i].rc = rc]
        /\ UNCHANGED notCmd
        /\ UNCHANGED <<pc, ns, files, lsOut, p, commOut, commErr, out, err,
                       result, resIdx, freq, printed, cellErr>>

\* result = out.split(b"\n")
ReadfileSplit ==
    /\ pc = "c9_split"
    /\ pc' = "c9_loop"
    /\ result' = Split(out, "\n")
    /\ resIdx' = 1
    /\ ns' = ns \cup {"result"}
    /\ UNCHANGED notCmd
    /\ UNCHANGED <<files, lsOut, procs, p, commOut, commErr, out, err,
                   freq, printed, cellErr>>

\* a variant that takes the piece before the first "="
FieldOfFirstPiece(res) ==
    LET parts == Split(res, "=")
    IN [ok |-> TRUE, text |-> Strip(parts[1])]

\* res.split(b"=")[1].strip() : ok is FALSE for the IndexError of a
\* line without "="
FieldOf(res) ==
    LET parts == Split(res, "=")
    IN IF Len(parts) < 2 THEN [ok |-> FALSE, text |-> <<>>]
       ELSE [ok |-> TRUE, text |-> Strip(parts[2])]

\* the line print("Frequency=%0.1f" % float(freq)) writes
FrequencyLine(x) == FreqPrefix \o FormatTenths(x)

\* if b"Central freq" in res
HasLabel(res) == Contains(res, Label)

\* one pass of: for res in result: if b"Central freq" in res: ...
ReadfileLoop ==
    /\ pc = "c9_loop"
    /\ resIdx <= Len(result)
    /\ LET res == result[resIdx]
           fld == FieldOf(res)
           x == ParseFloat(fld.text)
       IN \/ /\ ~HasLabel(res)
             /\ resIdx' = resIdx + 1
             /\ UNCHANGED <<pc, ns, freq, printed, cellErr>>
          \/ /\ HasLabel(res)
             /\ ~fld.ok
             /\ cellErr' = "IndexError"
             /\ pc' = "done"
             /\ UNCHANGED <<ns, resIdx, freq, printed>>
          \/ /\ HasLabel(res)
             /\ fld.ok
             /\ ~x.ok
             /\ freq' = fld.text
             /\ ns' = ns \cup {"freq"}
             /\ cellErr' = "ValueError"
             /\ pc' = "done"
             /\ UNCHANGED <<resIdx, printed>>
          \/ /\ HasLabel(res)
             /\ fld.ok
             /\ x.ok
             /\ freq' = fld.text
             /\ ns' = ns \cup {"freq"}
             /\ printed' = Append(printed, FrequencyLine(x))
             /\ resIdx' = resIdx + 1
             /\ UNCHANGED <<pc, cellErr>>
    /\ UNCHANGED notCmd
    /\ UNCHANGED <<files, lsOut, procs, p, commOut, commErr, out, err, result>>

\* the loop has gone through result: the cell ends
ReadfileLoopEnd ==
    /\ pc = "c9_loop"
    /\ resIdx > Len(result)
    /\ pc' = "done"
    /\ UNCHANGED notCmd
    /\ UNCHANGED <<ns, files, lsOut, procs, p, commOut, commErr, out, err,
                   result, resIdx, freq, printed, cellErr>>

NextCmd ==
    \/ ImportSubprocess
    \/ LsFirst
    \/ Wget
    \/ SetFilename
    \/ HelpPopen
    \/ PopenPrepfold
    \/ CommunicateCall
    \/ CommunicateRead
    \/ CommunicateReturn
    \/ LsSecond
    \/ PopenReadfile
    \/ ChildStep
    \/ ChildExit
    \/ ReadfileSplit
    \/ ReadfileLoop
    \/ ReadfileLoopEnd

SpecCmd == InitCmd /\ [][NextCmd]_vars

\* the child runs on its own, and communicate() keeps reading while it waits
FairSpecCmd ==
    /\ SpecCmd
    /\ WF_vars(ChildStep)
    /\ WF_vars(ChildExit)
    /\ WF_vars(CommunicateRead)
    /\ WF_vars(CommunicateReturn)

-----------------------------------------------------------------------------
(* The parsing statements of the readfile cell on their own: the state     *)
(* after communicate() has returned, for every captured stdout of at most  *)
(* MaxLines lines drawn from LineSet.                                      *)

LineHeads == {<<>>, Label, <<" ">> \o Label \o <<" ">>, <<"C", "e", "n", "t">>}

LineFields == {<<>>, <<" ", "7">>, <<"1", ".", "1", "7", " ">>, <<"x">>, Label}

LineSet ==
    LineHeads
    \cup {h \o <<"=">> \o f : h \in LineHeads, f \in LineFields}
    \cup {h \o <<"=">> \o f \o <<"=", "1">> : h \in LineHeads, f \in LineFields}

RECURSIVE JoinLines(_)
JoinLines(ls) ==
    IF ls = <<>> THEN <<>>
    ELSE IF Len(ls) = 1 THEN ls[1]
    ELSE ls[1] \o <<"\n">> \o JoinLines(Tail(ls))

ParseInputs == {JoinLines(ls) : ls \in SeqsUpTo(LineSet, MaxLines)}

InitParse ==
    /\ pc = "c9_split"
    /\ out \in ParseInputs
    /\ err = <<>>
    /\ ns = {"subprocess", "filename", "p", "out", "err"}
    /\ files = {Fits}
    /\ lsOut = <<{Fits}, {Fits}>>
    /\ procs = <<[NewProc("prepfold", <<>>) EXCEPT !.state = "exited", !.rc = 0],
                 [NewProc("readfile", <<>>) EXCEPT !.state = "exited", !.rc = 0,
                                                   !.wroteOut = out]>>
    /\ p = 2
    /\ commOut = out
    /\ commErr = <<>>
    /\ result = <<>>
    /\ resIdx = 0
    /\ freq = <<>>
    /\ printed = <<>>
    /\ cellErr = ""
    /\ GwbIdle
    /\ CwIdle
    /\ RunIdle
    /\ ImpIdle
    /\ FnIdle

NextParse ==
    \/ ReadfileSplit
    \/ ReadfileLoop
    \/ ReadfileLoopEnd

SpecParse == InitParse /\ [][NextParse]_vars

-----------------------------------------------------------------------------
(* Properties of Faking_it_at_the_command_line.                            *)

\* the kernel is between two cells: the last cell has finished and the next
\* one has not started
AtCellBoundary ==
    pc \in {"c1", "c2", "c3", "c4", "c5", "c6", "c7", "c8", "c9", "done"}

NoChildRunning == \A i \in 1..Len(procs) : procs[i].state = "exited"

LaunchCount(cmd) == Cardinality({i \in 1..Len(procs) : procs[i].cmd = cmd})

\* C1 as claimed: whenever a cell has finished, no process a cell launched
\* is still running.
C1_NoChildAtAnyBoundary == AtCellBoundary => NoChildRunning

\* C1, amended: cells run one at a time, and when a cell other than the
\* prepfold Popen cell has finished, no launched process is still running;
\* the Popen cell alone returns with its child running, up to the end of
\* the communicate cell that follows it.
C1_NoChildAfterOtherCells == (AtCellBoundary /\ pc # "c7") => NoChildRunning

C1_Witness ==
    /\ pc = "c8"
    /\ Len(procs) = 1
    /\ procs[1].state = "exited"
    /\ procs[1].wroteOut # <<>>

\* C2: each command is launched exactly once per execution of its cell,
\* with stdout and stderr as pipes, and the statement that follows
\* communicate() is the same whatever the exit status and stderr: no step
\* goes back to launch a command again.
C2_LaunchedOnceNoRetry ==
    /\ [](/\ LaunchCount("prepfold") =
                 IF pc \in {"c1", "c2", "c3", "c4", "c5", "c6"} THEN 0 ELSE 1
          /\ LaunchCount("readfile") =
                 IF pc \in {"c9_call", "c9_comm", "c9_split", "c9_loop", "done"}
                 THEN 1 ELSE 0
          /\ \A i \in 1..Len(procs) :
                 procs[i].stdout = "PIPE" /\ procs[i].stderr = "PIPE")
    /\ [][/\ (pc = "c7_comm" /\ pc' # pc) => pc' = "c8"
          /\ (pc = "c9_comm" /\ pc' # pc) => pc' = "c9_split"
          /\ (Len(procs') # Len(procs)) => pc \in {"c6", "c9"}]_vars

C2_Witness ==
    /\ pc = "done"
    /\ Len(procs) = 2
    /\ procs[1].rc = 1
    /\ procs[2].rc = 1
    /\ err # <<>>

\* the lines of a text, by the places of its newlines
NewlinesOf(text) == {i \in 1..Len(text) : text[i] = "\n"}

LineCount(text) == Cardinality(NewlinesOf(text)) + 1

LineAt(text, k) ==
    LET nl == NewlinesOf(text)
        startOf == IF k = 1 THEN 1
                   ELSE 1 + CHOOSE i \in nl : Cardinality({j \in nl : j < i}) = k - 2
        endOf == IF k = LineCount(text) THEN Len(text)
                 ELSE (CHOOSE i \in nl : Cardinality({j \in nl : j < i}) = k - 1) - 1
    IN SubSeq(text, startOf, endOf)

EqualsOf(line) == {i \in 1..Len(line) : line[i] = "="}

\* the text between the first and the second "=" of a line (to the end of
\* the line when there is one "="), whitespace stripped
FieldBetween(line) ==
    LET eq == EqualsOf(line)
        first == CHOOSE i \in eq : \A j \in eq : i <= j
        later == eq \ {first}
        second == IF later = {} THEN Len(line) + 1
                  ELSE CHOOSE i \in later : \A j \in later : i <= j
    IN IF eq = {} THEN <<>> ELSE Strip(SubSeq(line, first + 1, second - 1))

Labelled(text) == {k \in 1..LineCount(text) : Contains(LineAt(text, k), Label)}

\* a labelled line the cell cannot print: it has no "=", or its field is
\* not a number
Unprintable(text) ==
    {k \in Labelled(text) :
        \/ EqualsOf(LineAt(text, k)) = {}
        \/ ~ParseFloat(FieldBetween(LineAt(text, k))).ok}

SetToSeq(S) ==
    [i \in 1..Cardinality(S) |-> CHOOSE k \in S : Cardinality({j \in S : j < k}) = i - 1]

\* C3 as claimed: one "Frequency=" line for every line with the label, in
\* line order, carrying the field's text.
C3_OneLinePerLabelledLine ==
    pc = "done" =>
        LET ks == SetToSeq(Labelled(out))
        IN printed = [i \in 1..Len(ks) |-> FreqPrefix \o FieldBetween(LineAt(out, ks[i]))]

\* C3, amended: the labelled lines are taken in line order; each one whose
\* field (the text between its first and second "=", stripped) is a number
\* prints "Frequency=" and that number rounded to one decimal; the first
\* labelled line with no "=" (IndexError) or with a field that is no number
\* (ValueError) ends the cell and nothing more is printed; lines without
\* the label print nothing.
C3_PrintsRoundedUntilBadLine ==
    pc = "done" =>
        LET bad == Unprintable(out)
            stop == IF bad = {} THEN LineCount(out) + 1
                    ELSE CHOOSE k \in bad : \A j \in bad : k <= j
            ks == SetToSeq({k \in Labelled(out) : k < stop})
        IN /\ printed = [i \in 1..Len(ks) |->
                            FrequencyLine(ParseFloat(FieldBetween(LineAt(out, ks[i]))))]
           /\ cellErr = IF bad = {} THEN ""
                        ELSE IF EqualsOf(LineAt(out, stop)) = {} THEN "IndexError"
                        ELSE "ValueError"

C3_Witness ==
    /\ pc = "done"
    /\ Len(printed) = 2
    /\ printed[1] = FreqPrefix \o <<"1", ".", "2">>
    /\ printed[2] = FreqPrefix \o <<"7", ".", "0">>

\* C4: when the second !ls runs, prepfold has exited and written all it
\* writes, so the listing holds every file prepfold produced.
C4_ListingAfterPrepfold ==
    Len(lsOut) = 2 =>
        /\ procs[1].cmd = "prepfold"
        /\ procs[1].state = "exited"
        /\ procs[1].script = <<>>
        /\ procs[1].created \subseteq lsOut[2]

C4_Witness ==
    /\ Len(lsOut) = 2
    /\ Cardinality(procs[1].created) = 2
    /\ lsOut[2] # lsOut[1]

\* the process whose output out and err hold
CommunicatedProc ==
    IF pc \in {"c8", "c9", "c9_call", "c9_comm"} THEN 1
    ELSE IF pc \in {"c9_split", "c9_loop", "done"} THEN 2
    ELSE 0

\* C5: communicate() has no timeout; it returns only after the child has
\* exited, with out and err the child's complete stdout and stderr, and as
\* the child does exit, the call does return.
C5_CommunicateWaitsAndCompletes ==
    /\ [](CommunicatedProc # 0 =>
            /\ procs[CommunicatedProc].state = "exited"
            /\ procs[CommunicatedProc].script = <<>>
            /\ out = procs[CommunicatedProc].wroteOut
            /\ err = procs[CommunicatedProc].wroteErr)
    /\ (pc = "c7_comm") ~> (pc = "c8")
    /\ (pc = "c9_comm") ~> (pc = "c9_split")

\* the child wrote more than the pipe holds: it could finish only because
\* communicate() was reading
C5_Witness ==
    /\ pc = "c8"
    /\ procs[1].state = "exited"
    /\ out = <<"x", "\n", "x", "\n">>

-----------------------------------------------------------------------------
(* gw_detection/stochastic_gwb_analysis.ipynb                              *)

\* pulsars named in psr_names.npy, and pairs of files in the data set
MaxPsr == 2
\* files of ./dataset1/noise/
MaxNoiseFiles == 2
\* rows the sampler writes to the chain file (N, thinned)
MaxSamples == 4

\* the characters of names and paths in the order of their codes
Ascii ==
    <<"+", "-", ".", "/", "0", "1", "2", "3", "4", "5", "6", "7", "8", "9",
      "A", "B", "J", "_", "a", "b", "c", "d", "e", "f", "g", "h", "i", "j",
      "k", "l", "m", "n", "o", "p", "q", "r", "s", "t", "u", "v", "w", "x",
      "y", "z">>

Ord(c) == CHOOSE i \in 1..Len(Ascii) : Ascii[i] = c

\* a < b for two str values
RECURSIVE StrLess(_, _)
StrLess(a, b) ==
    IF b = <<>> THEN FALSE
    ELSE IF a = <<>> THEN TRUE
    ELSE IF a[1] # b[1] THEN Ord(a[1]) < Ord(b[1])
    ELSE StrLess(Tail(a), Tail(b))

\* sorted(...) of a list of distinct str values
RECURSIVE Sorted(_)
Sorted(S) ==
    IF S = {} THEN <<>>
    ELSE LET m == CHOOSE x \in S : \A y \in S \ {x} : StrLess(x, y)
         IN <<m>> \o Sorted(S \ {m})

EndsWith(x, suffix) ==
    /\ Len(x) >= Len(suffix)
    /\ SubSeq(x, Len(x) - Len(suffix) + 1, Len(x)) = suffix

\* glob.glob(dir + '*' + ext) over a directory listing: the paths of the
\* files that end in ext and do not start with a dot, in no given order
Glob(dir, listing, ext) ==
    {dir \o f : f \in {g \in listing : EndsWith(g, ext) /\ g[1] # "."}}

\* x.split('/')[-1]
Basename(x) == LET parts == Split(x, "/") IN parts[Len(parts)]

\* x.split('/')[-1].split('.')[0]
Stem(x) == Split(Basename(x), ".")[1]

PsrNames == {<<"B", "1">>, <<"J", "1">>, <<"J", "2">>}

\* the texts of the notebook: the file patterns, the arguments of the
\* signal classes and the names given to signals and parameters
GwbStr ==
    [par |-> <<".", "p", "a", "r">>,
     tim |-> <<".", "t", "i", "m">>,
     json |-> <<".", "j", "s", "o", "n">>,
     efac |-> <<"e", "f", "a", "c">>,
     log10_equad |-> <<"l", "o", "g", "1", "0", "_", "e", "q", "u", "a", "d">>,
     log10_ecorr |-> <<"l", "o", "g", "1", "0", "_", "e", "c", "o", "r", "r">>,
     log10_A |-> <<"l", "o", "g", "1", "0", "_", "A">>,
     gamma |-> <<"g", "a", "m", "m", "a">>,
     dm_gp |-> <<"d", "m", "_", "g", "p">>,
     gw |-> <<"g", "w">>,
     log10_A_gw |-> <<"l", "o", "g", "1", "0", "_", "A", "_", "g", "w">>,
     gamma_gw |-> <<"g", "a", "m", "m", "a", "_", "g", "w">>]

\* datadir = './dataset1/'
datadir == <<".", "/", "d", "a", "t", "a", "s", "e", "t", "1", "/">>

\* './dataset1/noise/'
NoiseDir == datadir \o <<"n", "o", "i", "s", "e", "/">>

\* what ./dataset1/ may hold
DataFiles ==
    {n \o GwbStr.par : n \in PsrNames} \cup {n \o GwbStr.tim : n \in PsrNames}
        \cup {<<"J", "1", ".", "t", "2">> \o GwbStr.tim}

DataDirs == {d \in SUBSET DataFiles : Cardinality(d) <= 2 * MaxPsr}

\* what psr_names.npy may hold
PsrLists == {l \in SUBSET PsrNames : Cardinality(l) <= MaxPsr}

\* Pulsar(p, t, ephem='DE436', clk=None) : the pulsar is named by its par
\* file, which in the data set is <name>.par
Pulsar(par, tim) == [name |-> Stem(par), par |-> par, tim |-> tim]

\* what ./dataset1/noise/ may hold: files of a JSON object each, given by
\* its members in the order of the text
NoiseFileNames ==
    {n \o GwbStr.json : n \in PsrNames} \cup {<<"J", "1", ".", "t", "x", "t">>}

NoiseMembers ==
    LET k1 == <<"J", "1", "_">> \o GwbStr.log10_equad
        k2 == <<"J", "1", "_">> \o GwbStr.efac
    IN {<<>>, <<<<k1, 1>>>>, <<<<k1, 2>>>>, <<<<k2, 1>>>>,
        <<<<k1, 1>>, <<k2, 2>>>>}

NoiseDirs ==
    UNION {[d -> NoiseMembers] :
               d \in {e \in SUBSET NoiseFileNames : Cardinality(e) <= MaxNoiseFiles}}

\* the noise files of the data set: one file per pulsar, holding that
\* pulsar's white-noise values
DatasetNoise ==
    {[f \in {n \o GwbStr.json : n \in L} |->
         <<<<Stem(f) \o <<"_">> \o GwbStr.log10_equad, 1>>, <<Stem(f) \o <<"_">> \o GwbStr.efac, 2>>>>] :
       L \in {l \in SUBSET PsrNames : Cardinality(l) <= MaxNoiseFiles}}

\* json.load of a JSON object: a later member replaces an earlier one of
\* the same name
JsonLoad(members) ==
    LET keys == {members[i][1] : i \in 1..Len(members)}
    IN [k \in keys |->
           members[CHOOSE i \in 1..Len(members) :
                       /\ members[i][1] = k
                       /\ \A j \in (i + 1)..Len(members) : members[j][1] # k][2]]

\* a variant that keeps the value a key already has
DictUpdateKeepOld(d, e) ==
    [k \in DOMAIN d \cup DOMAIN e |-> IF k \in DOMAIN d THEN d[k] ELSE e[k]]

\* d.update(e)
DictUpdate(d, e) ==
    [k \in DOMAIN d \cup DOMAIN e |-> IF k \in DOMAIN e THEN e[k] ELSE d[k]]

dataVars == <<psrlist, dirlist, parfiles, timfiles, psrs, warned>>
noiseVars == <<noiseJson, noisefiles, nfIdx, params>>
modelVars == <<priors, sigs, fullModel, ptaNames, defaults>>
sampVars == <<x0, ndim, sampler, chainFile>>
postVars == <<chain, burn, plotted>>

\* the imports of the first cell
Imports ==
    /\ gpc = "imports"
    /\ gpc' = "psrlist"
    /\ UNCHANGED <<gErr, dataVars, noiseVars, modelVars, sampVars, postVars>>
    /\ UNCHANGED notGwb

\* psrlist = np.load('./psr_names.npy')
LoadPsrlist ==
    /\ gpc = "psrlist"
    /\ gpc' = "datadir"
    /\ psrlist' \in PsrLists
    /\ UNCHANGED <<gErr, dirlist, parfiles, timfiles, psrs, warned, noiseVars,
                   modelVars, sampVars, postVars>>
    /\ UNCHANGED notGwb

\* datadir = './dataset1/'
SetDatadir ==
    /\ gpc = "datadir"
    /\ gpc' = "parfiles"
    /\ UNCHANGED <<gErr, dataVars, noiseVars, modelVars, sampVars, postVars>>
    /\ UNCHANGED notGwb

\* a variant that keeps every file
FilterKeepAll(paths, names) == paths

\* [x.encode('ascii') for x in files if x.split('/')[-1].split('.')[0] in psrlist]
FilterByPsrlist(paths, names) == SelectSeq(paths, LAMBDA x : Stem(x) \in names)

\* parfiles = sorted(glob.glob(datadir + '/*.par')), timfiles likewise,
\* then both filtered by psrlist
GlobParTim ==
    /\ gpc = "parfiles"
    /\ gpc' = "len_parfiles"
    /\ \E listing \in DataDirs :
           /\ dirlist' = listing
           /\ parfiles' = FilterByPsrlist(
                  Sorted(Glob(datadir \o <<"/">>, listing, GwbStr.par)), psrlist)
           /\ timfiles' = FilterByPsrlist(
                  Sorted(Glob(datadir \o <<"/">>, listing, GwbStr.tim)), psrlist)
    /\ UNCHANGED <<gErr, psrlist, psrs, warned, noiseVars, modelVars, sampVars,
                   postVars>>
    /\ UNCHANGED notGwb

\* the cells that only show a value: len(parfiles), pta.params, chain.shape
Display ==
    /\ gpc \in {"len_parfiles", "pta_params", "shape"}
    /\ gpc' = CASE gpc = "len_parfiles" -> "psrs"
                [] gpc = "pta_params" -> "set_default"
                [] gpc = "shape" -> "plot"
    /\ UNCHANGED <<gErr, dataVars, noiseVars, modelVars, sampVars, postVars>>
    /\ UNCHANGED notGwb

\* zip(parfiles, timfiles): pairs up to the shorter list
Zip(a, b) ==
    [i \in 1..(IF Len(a) < Len(b) THEN Len(a) ELSE Len(b)) |-> <<a[i], b[i]>>]

\* the loop over the pairs, were a pulsar without a distance skipped
PulsarLoopSkipWarned(pairs, noDist) ==
    LET kept == SelectSeq(pairs, LAMBDA x : Stem(x[1]) \notin noDist)
    IN [psrs |-> [i \in DOMAIN kept |-> Pulsar(kept[i][1], kept[i][2])],
        warned |-> <<>>]

\* for p, t in pairs: psr = Pulsar(p, t, ...); psrs.append(psr). Pulsar()
\* prints the warning for a pulsar it finds no distance for (those of
\* noDist) and returns the object all the same.
PulsarLoop(pairs, noDist) ==
    LET made == [i \in DOMAIN pairs |-> Pulsar(pairs[i][1], pairs[i][2])]
        names == [i \in DOMAIN made |-> made[i].name]
    IN [psrs |-> made,
        warned |-> SelectSeq(names, LAMBDA n : n \in noDist)]

\* psrs = []; for p, t in zip(parfiles, timfiles): psrs.append(Pulsar(p, t, ...))
LoadPulsars ==
    /\ gpc = "psrs"
    /\ gpc' = "noisefiles"
    /\ \E noDist \in SUBSET PsrNames :
           LET r == PulsarLoop(Zip(parfiles, timfiles), noDist)
           IN /\ psrs' = r.psrs
              /\ warned' = r.warned
    /\ UNCHANGED <<gErr, psrlist, dirlist, parfiles, timfiles, noiseVars,
                   modelVars, sampVars, postVars>>
    /\ UNCHANGED notGwb

\* noisefiles = sorted(glob.glob('./dataset1/noise/*.json'))
GlobNoisefiles ==
    /\ gpc = "noisefiles"
    /\ gpc' = "params"
    /\ noisefiles' = Sorted(Glob(NoiseDir, DOMAIN noiseJson, GwbStr.json))
    /\ UNCHANGED <<gErr, dataVars, noiseJson, nfIdx, params, modelVars,
                   sampVars, postVars>>
    /\ UNCHANGED notGwb

\* params = {}
NoiseLoopStart ==
    /\ gpc = "params"
    /\ gpc' = "params_loop"
    /\ params' = <<>>
    /\ nfIdx' = 1
    /\ UNCHANGED <<gErr, dataVars, noiseJson, noisefiles, modelVars,
                   sampVars, postVars>>
    /\ UNCHANGED notGwb

\* one pass of: for nf in noisefiles: params.update(json.load(open(nf)))
NoiseLoop ==
    /\ gpc = "params_loop"
    /\ nfIdx <= Len(noisefiles)
    /\ params' = DictUpdate(params, JsonLoad(noiseJson[Basename(noisefiles[nfIdx])]))
    /\ nfIdx' = nfIdx + 1
    /\ UNCHANGED <<gpc, gErr, dataVars, noiseJson, noisefiles, modelVars,
                   sampVars, postVars>>
    /\ UNCHANGED notGwb

\* the loop has gone through noisefiles: the cell ends
NoiseLoopEnd ==
    /\ gpc = "params_loop"
    /\ nfIdx > Len(noisefiles)
    /\ gpc' = "Tspan"
    /\ UNCHANGED <<gErr, dataVars, noiseVars, modelVars, sampVars, postVars>>
    /\ UNCHANGED notGwb

\* the noise cells alone, over any content of ./dataset1/noise/
InitNoise ==
    /\ CmdIdle
    /\ CwIdle
    /\ GwbStart
    /\ gpc = "noisefiles"
    /\ noiseJson \in NoiseDirs
    /\ RunIdle
    /\ ImpIdle
    /\ FnIdle

NextNoise ==
    \/ GlobNoisefiles
    \/ NoiseLoopStart
    \/ NoiseLoop
    \/ NoiseLoopEnd

SpecNoise == InitNoise /\ [][NextNoise]_vars

\* Tspan = np.max(tmax) - np.min(tmin) over the pulsars: np.max of an empty
\* list raises ValueError
TspanCell ==
    /\ gpc = "Tspan"
    /\ \/ /\ psrs # <<>>
          /\ gpc' = "selection"
          /\ UNCHANGED gErr
       \/ /\ psrs = <<>>
          /\ gpc' = "error"
          /\ gErr' = "ValueError"
    /\ UNCHANGED <<dataVars, noiseVars, modelVars, sampVars, postVars>>
    /\ UNCHANGED notGwb

\* selection = Selection(by_backend); selection2 = Selection(nanograv_backends)
SelectionCell ==
    /\ gpc = "selection"
    /\ gpc' = "priors"
    /\ UNCHANGED <<gErr, dataVars, noiseVars, modelVars, sampVars, postVars>>
    /\ UNCHANGED notGwb

\* the parameter classes of the prior cell: a class called with a name
\* gives one parameter of that name, common to all pulsars
Priors ==
    [efac |-> [kind |-> "Constant", name |-> <<>>, value |-> ""],
     equad |-> [kind |-> "Constant", name |-> <<>>, value |-> ""],
     ecorr |-> [kind |-> "Constant", name |-> <<>>, value |-> ""],
     log10_A |-> [kind |-> "LinearExp", name |-> <<>>, value |-> ""],
     gamma |-> [kind |-> "Uniform", name |-> <<>>, value |-> ""],
     log10_A_dm |-> [kind |-> "LinearExp", name |-> <<>>, value |-> ""],
     gamma_dm |-> [kind |-> "Uniform", name |-> <<>>, value |-> ""],
     log10_A_gw |-> [kind |-> "LinearExp", name |-> GwbStr.log10_A_gw, value |-> ""],
     gamma_gw |-> [kind |-> "Constant", name |-> GwbStr.gamma_gw, value |-> "4.33"]]

PriorsCell ==
    /\ gpc = "priors"
    /\ gpc' = "signals"
    /\ priors' = Priors
    /\ UNCHANGED <<gErr, dataVars, noiseVars, sigs, fullModel, ptaNames,
                   defaults, sampVars, postVars>>
    /\ UNCHANGED notGwb

\* the signal classes of the signal cell: the name of the signal and, for
\* each argument that is a parameter, the parameter class it is given
Signals ==
    [ef |-> [name |-> <<>>, args |-> {[arg |-> GwbStr.efac, prior |-> "efac"]}],
     eq |-> [name |-> <<>>, args |-> {[arg |-> GwbStr.log10_equad, prior |-> "equad"]}],
     ec |-> [name |-> <<>>, args |-> {[arg |-> GwbStr.log10_ecorr, prior |-> "ecorr"]}],
     rn |-> [name |-> <<>>,
             args |-> {[arg |-> GwbStr.log10_A, prior |-> "log10_A"],
                       [arg |-> GwbStr.gamma, prior |-> "gamma"]}],
     dm_gp |-> [name |-> GwbStr.dm_gp,
                args |-> {[arg |-> GwbStr.log10_A, prior |-> "log10_A_dm"],
                          [arg |-> GwbStr.gamma, prior |-> "gamma_dm"]}],
     gw |-> [name |-> GwbStr.gw,
             args |-> {[arg |-> GwbStr.log10_A, prior |-> "log10_A_gw"],
                       [arg |-> GwbStr.gamma, prior |-> "gamma_gw"]}],
     tm |-> [name |-> <<>>, args |-> {}]]

SignalsCell ==
    /\ gpc = "signals"
    /\ gpc' = "model"
    /\ sigs' = Signals
    /\ UNCHANGED <<gErr, dataVars, noiseVars, priors, fullModel, ptaNames,
                   defaults, sampVars, postVars>>
    /\ UNCHANGED notGwb

\* s = eq + rn + dm_gp + tm + gw
ModelCell ==
    /\ gpc = "model"
    /\ gpc' = "pta"
    /\ fullModel' = <<"eq", "rn", "dm_gp", "tm", "gw">>
    /\ UNCHANGED <<gErr, dataVars, noiseVars, priors, sigs, ptaNames,
                   defaults, sampVars, postVars>>
    /\ UNCHANGED notGwb

\* a naming that makes every parameter a parameter of its pulsar, whatever
\* name its class was given
ParamNamePerPulsar(psr, sig, a, pr) ==
    psr.name \o <<"_">>
        \o (IF sig.name # <<>> THEN sig.name \o <<"_">> ELSE <<>>)
        \o a.arg

\* the name of a parameter of a signal of a pulsar: the name its class was
\* given, or else <pulsar>_<signal>_<argument> (the backend flag of a
\* white-noise parameter is left out)
ParamName(psr, sig, a, pr) ==
    IF pr[a.prior].name # <<>> THEN pr[a.prior].name
    ELSE psr.name \o <<"_">>
             \o (IF sig.name # <<>> THEN sig.name \o <<"_">> ELSE <<>>)
             \o a.arg

\* the parameters of s(p) for every pulsar p, by name
ModelParams(pulsars, mdl, sg, pr) ==
    {[name |-> ParamName(pulsars[i], sg[mdl[j]], a, pr), kind |-> pr[a.prior].kind] :
        <<i, j, a>> \in {<<i, j, a>> \in (1..Len(pulsars)) \X (1..Len(mdl))
                                \X UNION {sg[m].args : m \in DOMAIN sg} :
                            a \in sg[mdl[j]].args}}

\* pta.param_names : the parameters that are not constant, sorted by name
ParamNames(pulsars, mdl, sg, pr) ==
    Sorted({q.name : q \in {r \in ModelParams(pulsars, mdl, sg, pr) :
                                r.kind # "Constant"}})

\* models = [s(p) for p in psrs]; pta = signal_base.PTA(models)
PtaCell ==
    /\ gpc = "pta"
    /\ gpc' = "pta_params"
    /\ ptaNames' = ParamNames(psrs, fullModel, sigs, priors)
    /\ UNCHANGED <<gErr, dataVars, noiseVars, priors, sigs, fullModel,
                   defaults, sampVars, postVars>>
    /\ UNCHANGED notGwb

\* a cell that sets no value
SetDefaultParamsSkipped ==
    /\ gpc = "set_default"
    /\ gpc' = "x0"
    /\ UNCHANGED <<gErr, dataVars, noiseVars, modelVars, sampVars, postVars>>
    /\ UNCHANGED notGwb

\* pta.set_default_params(params) : a constant parameter named in params
\* takes the value params gives it
SetDefaultParams ==
    /\ gpc = "set_default"
    /\ gpc' = "x0"
    /\ defaults' =
           LET consts == {q.name : q \in {r \in ModelParams(psrs, fullModel, sigs, priors) :
                                              r.kind = "Constant"}}
           IN [n \in consts \cap DOMAIN params |-> params[n]]
    /\ UNCHANGED <<gErr, dataVars, noiseVars, priors, sigs, fullModel,
                   ptaNames, sampVars, postVars>>
    /\ UNCHANGED notGwb

\* a number of the run: the k-th value of a parameter (col = "param"), or
\* of one of the sampler's own columns
Value(col, name, k) == [col |-> col, name |-> name, k |-> k]

\* np.hstack(p.sample() for p in pta.params) : one value per parameter
DrawX0(names) == [i \in 1..Len(names) |-> Value("param", names[i], 0)]

\* x0 = np.hstack(p.sample() for p in pta.params); ndim = len(x0)
X0Cell ==
    /\ gpc = "x0"
    /\ gpc' = "sampler"
    /\ x0' = DrawX0(ptaNames)
    /\ ndim' = Len(x0')
    /\ UNCHANGED <<gErr, dataVars, noiseVars, modelVars, sampler, chainFile,
                   postVars>>
    /\ UNCHANGED notGwb

\* cov = ...; sampler = ptmcmc(ndim, ..., outDir='./chains/dataset1_crn/', resume=False)
SamplerCell ==
    /\ gpc = "sampler"
    /\ gpc' = "sample"
    /\ sampler' = [ndim |-> ndim, outDir |-> "./chains/dataset1_crn/"]
    /\ UNCHANGED <<gErr, dataVars, noiseVars, modelVars, x0, ndim, chainFile,
                   postVars>>
    /\ UNCHANGED notGwb

\* N = int(1e6); x0 = ...; sampler.sample(x0, N, ...) is called: with
\* resume=False the chain file starts empty
SampleCall ==
    /\ gpc = "sample"
    /\ gpc' = "sampling"
    /\ x0' = DrawX0(ptaNames)
    /\ chainFile' = <<>>
    /\ UNCHANGED <<gErr, dataVars, noiseVars, modelVars, ndim, sampler, postVars>>
    /\ UNCHANGED notGwb

\* the columns the sampler writes after the parameters
SamplerColumns == <<"lnpost", "lnlike", "accept", "ptaccept">>

\* the k-th row of a chain file: the sampler's ndim parameter values, in
\* the order the likelihood reads them (that of pta.params), and then the
\* log-posterior, the log-likelihood and two acceptance rates
ChainRow(names, nd, k) ==
    [i \in 1..(nd + Len(SamplerColumns)) |->
        IF i <= nd THEN Value("param", names[i], k)
        ELSE Value(SamplerColumns[i - nd], <<>>, k)]

\* the sampler writes one more row
SampleStep ==
    /\ gpc = "sampling"
    /\ Len(chainFile) < MaxSamples
    /\ chainFile' = Append(chainFile,
                         ChainRow(ptaNames, sampler.ndim, Len(chainFile) + 1))
    /\ UNCHANGED <<gpc, gErr, dataVars, noiseVars, modelVars, x0, ndim,
                   sampler, postVars>>
    /\ UNCHANGED notGwb

\* sampler.sample returns after its N steps
SampleReturn ==
    /\ gpc = "sampling"
    /\ Len(chainFile) = MaxSamples
    /\ gpc' = "load"
    /\ UNCHANGED <<gErr, dataVars, noiseVars, modelVars, sampVars, postVars>>
    /\ UNCHANGED notGwb

\* np.loadtxt of a file of several rows of as many numbers each: a matrix
LoadTxt(rows) == [shape |-> <<Len(rows), Len(rows[1])>>, data |-> rows]

\* chain = np.loadtxt('./chains/dataset1_crn/chain_1.txt')
\* burn = int(0.25 * chain.shape[0])
LoadChain ==
    /\ gpc = "load"
    /\ gpc' = "shape"
    /\ chain' = LoadTxt(chainFile)
    /\ burn' = chain'.shape[1] \div 4
    /\ UNCHANGED <<gErr, dataVars, noiseVars, modelVars, sampVars, plotted>>
    /\ UNCHANGED notGwb

\* the column the notebook plots, as written in chain[:, -5]
PlotColumnNext == 0 - 4

PlotColumn == -5

\* m[from:, j] : a negative j counts from the last column
Column(m, from, j) ==
    LET col == IF j < 0 THEN m.shape[2] + j + 1 ELSE j + 1
    IN [k \in 1..(m.shape[1] - from) |-> m.data[from + k][col]]

\* plt.plot(chain[:, -5]); plt.hist(chain[burn:, -5], ...);
\* upper = 10**np.percentile(chain[burn:, -5], q=95)
PlotCells ==
    /\ gpc \in {"plot", "hist", "upper"}
    /\ gpc' = CASE gpc = "plot" -> "hist"
                [] gpc = "hist" -> "upper"
                [] gpc = "upper" -> "done"
    /\ plotted' = Append(plotted,
                         Column(chain, IF gpc = "plot" THEN 0 ELSE burn, PlotColumn))
    /\ UNCHANGED <<gErr, dataVars, noiseVars, modelVars, sampVars, chain, burn>>
    /\ UNCHANGED notGwb

\* the notebook from its first cell, with the noise files of the data set
InitGwb ==
    /\ CmdIdle
    /\ CwIdle
    /\ GwbStart
    /\ gpc = "imports"
    /\ noiseJson \in DatasetNoise
    /\ RunIdle
    /\ ImpIdle
    /\ FnIdle

NextGwb ==
    \/ Imports
    \/ LoadPsrlist
    \/ SetDatadir
    \/ GlobParTim
    \/ Display
    \/ LoadPulsars
    \/ GlobNoisefiles
    \/ NoiseLoopStart
    \/ NoiseLoop
    \/ NoiseLoopEnd
    \/ TspanCell
    \/ SelectionCell
    \/ PriorsCell
    \/ SignalsCell
    \/ ModelCell
    \/ PtaCell
    \/ SetDefaultParams
    \/ X0Cell
    \/ SamplerCell
    \/ SampleCall
    \/ SampleStep
    \/ SampleReturn
    \/ LoadChain
    \/ PlotCells

SpecGwb == InitGwb /\ [][NextGwb]_vars

-----------------------------------------------------------------------------
(* Properties of stochastic_gwb_analysis.                                  *)

\* the files './dataset1/noise/*.json' names
NoiseJsonFiles == {f \in DOMAIN noiseJson : EndsWith(f, GwbStr.json)}

KeysOfFile(f) == {noiseJson[f][i][1] : i \in 1..Len(noiseJson[f])}

\* the value a file gives a key (that of the key's last member)
ValueInFile(f, k) ==
    LET at == {i \in 1..Len(noiseJson[f]) : noiseJson[f][i][1] = k}
    IN noiseJson[f][CHOOSE i \in at : \A j \in at : j <= i][2]

\* among the files that hold key k, the one whose path sorts last
LastFileWith(k) ==
    CHOOSE f \in NoiseJsonFiles :
        /\ k \in KeysOfFile(f)
        /\ \A g \in NoiseJsonFiles \ {f} :
               k \in KeysOfFile(g) => StrLess(NoiseDir \o g, NoiseDir \o f)

NoiseLoopDone ==
    gpc \notin {"idle", "imports", "psrlist", "datadir", "parfiles",
                "len_parfiles", "psrs", "noisefiles", "params", "params_loop"}

\* C8: after the noise-file loop, params holds exactly the keys of all the
\* noise JSON files, and each key has the value of the file that is last
\* in sorted path order among the files that hold it.
C8_ParamsIsUnionLastFileWins ==
    NoiseLoopDone =>
        /\ DOMAIN params = UNION {KeysOfFile(f) : f \in NoiseJsonFiles}
        /\ \A k \in DOMAIN params : params[k] = ValueInFile(LastFileWith(k), k)

C8_Witness ==
    /\ NoiseLoopDone
    /\ \E f, g \in NoiseJsonFiles :
           /\ StrLess(f, g)
           /\ \E k \in KeysOfFile(f) \cap KeysOfFile(g) :
                  /\ ValueInFile(f, k) # ValueInFile(g, k)
                  /\ params[k] = ValueInFile(g, k)
           /\ KeysOfFile(f) # KeysOfFile(g)

ChainLoaded == gpc \in {"shape", "plot", "hist", "upper", "done"}

\* C6: the loaded chain has one row per sample, ndim parameter columns in
\* the order of pta.param_names and then four columns of the sampler; the
\* column chain[:, -5] that is plotted, binned and summarised is column
\* ndim - 1 (counted from 0), which holds log10_A_gw.
C6_PlottedColumnIsLog10AGw ==
    ChainLoaded =>
        /\ chain.shape = <<MaxSamples, ndim + 4>>
        /\ ndim = Len(ptaNames)
        /\ \A k \in 1..chain.shape[1] :
               /\ Len(chain.data[k]) = ndim + 4
               /\ \A i \in 1..ndim :
                      chain.data[k][i] = Value("param", ptaNames[i], k)
               /\ \A i \in (ndim + 1)..(ndim + 4) :
                      chain.data[k][i].col \in {"lnpost", "lnlike", "accept", "ptaccept"}
        /\ ptaNames[ndim] = GwbStr.log10_A_gw
        /\ \A n \in 1..Len(plotted) :
               LET from == IF n = 1 THEN 0 ELSE burn
               IN /\ Len(plotted[n]) = chain.shape[1] - from
                  /\ \A k \in 1..Len(plotted[n]) :
                         /\ plotted[n][k] = chain.data[from + k][ndim]
                         /\ plotted[n][k] = Value("param", GwbStr.log10_A_gw, from + k)

C6_Witness ==
    /\ gpc = "done"
    /\ Len(psrs) >= 2
    /\ ndim = 4 * Len(psrs) + 1
    /\ Len(plotted) = 3
    /\ burn >= 1
    /\ plotted[3] # <<>>

-----------------------------------------------------------------------------
(* gw_detection/cw_exercises.ipynb : the cells from the PTA on, run with   *)
(* the pulsars the reader has appended to psrs.                            *)

\* pulsars the reader appends to psrs
MaxCwPsr == 2
\* calls of plot_param
MaxPlots == 2

\* the pulsar of the Pulsar(...) cell and two made by make_fake_pulsar
CwPulsars == {<<"J", "1", "9", "1", "0", "+", "4", "9", "0", "9">>, <<"J", "0", "0", "3", "0", "-", "1", "2", "0", "5">>, <<"J", "1", "2", "0", "1", "+", "0", "1", "3", "4">>}

\* the texts of the notebook: the arguments of the signal classes and the
\* names given to the parameters of the continuous wave
CwStr ==
    [efac |-> <<"e", "f", "a", "c">>,
     log10_equad |-> <<"l", "o", "g", "1", "0", "_", "e", "q", "u", "a", "d">>,
     cos_gwtheta |-> <<"c", "o", "s", "_", "g", "w", "t", "h", "e", "t", "a">>,
     gwphi |-> <<"g", "w", "p", "h", "i">>,
     log10_mc |-> <<"l", "o", "g", "1", "0", "_", "m", "c">>,
     log10_fgw |-> <<"l", "o", "g", "1", "0", "_", "f", "g", "w">>,
     phase0 |-> <<"p", "h", "a", "s", "e", "0">>,
     psi |-> <<"p", "s", "i">>,
     cos_inc |-> <<"c", "o", "s", "_", "i", "n", "c">>,
     log10_h |-> <<"l", "o", "g", "1", "0", "_", "h">>]

\* the parameter classes of the two prior cells
CwPriors ==
    [efac |-> [kind |-> "Constant", name |-> <<>>],
     equad |-> [kind |-> "Uniform", name |-> <<>>],
     cos_gwtheta |-> [kind |-> "Uniform", name |-> CwStr.cos_gwtheta],
     gwphi |-> [kind |-> "Uniform", name |-> CwStr.gwphi],
     log10_mc |-> [kind |-> "Uniform", name |-> CwStr.log10_mc],
     log10_fgw |-> [kind |-> "Uniform", name |-> CwStr.log10_fgw],
     phase0 |-> [kind |-> "Uniform", name |-> CwStr.phase0],
     psi |-> [kind |-> "Uniform", name |-> CwStr.psi],
     cos_inc |-> [kind |-> "Uniform", name |-> CwStr.cos_inc],
     log10_h |-> [kind |-> "LinearExp", name |-> CwStr.log10_h]]

\* the signal classes: ef, eq, tm and the continuous-wave signal cw
CwSignals ==
    [ef |-> [name |-> <<>>, args |-> {[arg |-> CwStr.efac, prior |-> "efac"]}],
     eq |-> [name |-> <<>>, args |-> {[arg |-> CwStr.log10_equad, prior |-> "equad"]}],
     tm |-> [name |-> <<>>, args |-> {}],
     cw |-> [name |-> <<"c", "w">>,
             args |-> {[arg |-> CwStr.cos_gwtheta, prior |-> "cos_gwtheta"],
                       [arg |-> CwStr.gwphi, prior |-> "gwphi"],
                       [arg |-> CwStr.log10_mc, prior |-> "log10_mc"],
                       [arg |-> CwStr.log10_h, prior |-> "log10_h"],
                       [arg |-> CwStr.log10_fgw, prior |-> "log10_fgw"],
                       [arg |-> CwStr.phase0, prior |-> "phase0"],
                       [arg |-> CwStr.psi, prior |-> "psi"],
                       [arg |-> CwStr.cos_inc, prior |-> "cos_inc"]}]]

\* s = ef + eq + tm + cw
CwModel == <<"ef", "eq", "tm", "cw">>

\* the lists psrs may be: pulsars, each once, in the order appended
CwPsrLists ==
    {l \in SeqsUpTo({[name |-> n] : n \in CwPulsars}, MaxCwPsr) :
        \A i, j \in 1..Len(l) : i # j => l[i] # l[j]}

\* a variant that writes the first name as a header, which savetxt marks
\* as a comment
SaveTxtFirstAsHeader(X) ==
    LET RECURSIVE F(_)
        F(i) == IF i > Len(X) THEN <<>> ELSE X[i] \o <<"\n">> \o F(i + 1)
    IN IF X = <<>> THEN <<>> ELSE <<"#", " ">> \o F(1)

\* np.savetxt(filename, X, fmt='%s') for a list of str: one per line
SaveTxt(X) ==
    LET RECURSIVE F(_)
        F(i) == IF i > Len(X) THEN <<>> ELSE X[i] \o <<"\n">> \o F(i + 1)
    IN F(1)

\* line.split() : the pieces between runs of whitespace
SplitWhitespace(line) ==
    LET RECURSIVE F(_, _, _)
        F(i, cur, acc) ==
            IF i > Len(line) THEN (IF cur = <<>> THEN acc ELSE Append(acc, cur))
            ELSE IF line[i] \in Whitespace
                 THEN F(i + 1, <<>>, IF cur = <<>> THEN acc ELSE Append(acc, cur))
                 ELSE F(i + 1, Append(cur, line[i]), acc)
    IN F(1, <<>>, <<>>)

\* np.loadtxt(filename, dtype='str') : of each line the text before '#' is
\* split at whitespace, lines without a value are skipped, rows of unequal
\* length are a ValueError, and axes of length one are squeezed away
LoadTxtStr(text) ==
    LET lines == [k \in 1..LineCount(text) |-> LineAt(text, k)]
        vals == [i \in 1..Len(lines) |-> SplitWhitespace(Split(lines[i], "#")[1])]
        rows == SelectSeq(vals, LAMBDA r : r # <<>>)
    IN IF rows = <<>> THEN [err |-> "", shape |-> <<0>>, data |-> <<>>]
       ELSE IF \E i \in 1..Len(rows) : Len(rows[i]) # Len(rows[1])
       THEN [err |-> "ValueError", shape |-> <<>>, data |-> <<>>]
       ELSE IF Len(rows) = 1 /\ Len(rows[1]) = 1
       THEN [err |-> "", shape |-> <<>>, data |-> rows[1][1]]
       ELSE IF Len(rows[1]) = 1
       THEN [err |-> "", shape |-> <<Len(rows)>>,
             data |-> [i \in 1..Len(rows) |-> rows[i][1]]]
       ELSE IF Len(rows) = 1
       THEN [err |-> "", shape |-> <<Len(rows[1])>>, data |-> rows[1]]
       ELSE [err |-> "", shape |-> <<Len(rows), Len(rows[1])>>, data |-> rows]

\* list(array) : iterating an array without axes is a TypeError
ListOfArray(a) ==
    IF a.err # "" THEN [err |-> a.err, items |-> <<>>]
    ELSE IF a.shape = <<>> THEN [err |-> "TypeError", items |-> <<>>]
    ELSE [err |-> "", items |-> a.data]

\* l.index(x) : the first position of x counted from zero; ok is FALSE for
\* the ValueError of a value that is not in the list
ListIndex(l, x) ==
    LET at == {i \in 1..Len(l) : l[i] = x}
    IN IF at = {} THEN [ok |-> FALSE, idx |-> 0]
       ELSE [ok |-> TRUE, idx |-> (CHOOSE i \in at : \A j \in at : i <= j) - 1]

\* model = [s(psr) for psr in psrs]; pta = PTA(model); x0 = np.hstack(...);
\* ndim; cov; groups; chaindir = 'chains/'; sampler = ptmcmc(...);
\* np.savetxt(chaindir + '/params.txt', list(map(str, pta.param_names)), fmt='%s')
\* np.hstack of no array raises ValueError
CwPtaCell ==
    /\ cpc = "pta"
    /\ LET names == ParamNames(cwPsrs, CwModel, CwSignals, CwPriors)
       IN \/ /\ names = <<>>
             /\ cwNames' = names
             /\ cErr' = "ValueError"
             /\ cpc' = "error"
             /\ UNCHANGED <<cwNdim, cwSampler, paramsTxt>>
          \/ /\ names # <<>>
             /\ cwNames' = names
             /\ cwNdim' = Len(DrawX0(names))
             /\ cwSampler' = [ndim |-> cwNdim', outDir |-> "chains/"]
             /\ paramsTxt' = [exists |-> TRUE, text |-> SaveTxt(names)]
             /\ cpc' = "jump"
             /\ UNCHANGED cErr
    /\ UNCHANGED <<cwPsrs, cwChainFile, cwChain, cwParams, cwBurn, cwPlotted>>
    /\ UNCHANGED notCw

\* jp = fns.JumpProposal(pta); sampler.addProposalToCycle(...) twice
CwJumpCell ==
    /\ cpc = "jump"
    /\ cpc' = "sample"
    /\ UNCHANGED <<cErr, cwPsrs, cwNames, cwNdim, cwSampler, paramsTxt,
                   cwChainFile, cwChain, cwParams, cwBurn, cwPlotted>>
    /\ UNCHANGED notCw

\* N = 100000; sampler.sample(x0, N, ...) is called: with resume=False the
\* chain file starts empty
CwSampleCall ==
    /\ cpc = "sample"
    /\ cpc' = "sampling"
    /\ cwChainFile' = <<>>
    /\ UNCHANGED <<cErr, cwPsrs, cwNames, cwNdim, cwSampler, paramsTxt,
                   cwChain, cwParams, cwBurn, cwPlotted>>
    /\ UNCHANGED notCw

\* the sampler writes one more row
CwSampleStep ==
    /\ cpc = "sampling"
    /\ Len(cwChainFile) < MaxSamples
    /\ cwChainFile' = Append(cwChainFile,
                             ChainRow(cwNames, cwSampler.ndim, Len(cwChainFile) + 1))
    /\ UNCHANGED <<cpc, cErr, cwPsrs, cwNames, cwNdim, cwSampler, paramsTxt,
                   cwChain, cwParams, cwBurn, cwPlotted>>
    /\ UNCHANGED notCw

\* sampler.sample returns after its N steps
CwSampleReturn ==
    /\ cpc = "sampling"
    /\ Len(cwChainFile) = MaxSamples
    /\ cpc' = "load"
    /\ UNCHANGED <<cErr, cwPsrs, cwNames, cwNdim, cwSampler, paramsTxt,
                   cwChainFile, cwChain, cwParams, cwBurn, cwPlotted>>
    /\ UNCHANGED notCw

\* chain = np.loadtxt(chaindir + '/chain_1.txt')
\* params = list(np.loadtxt(chaindir + '/params.txt', dtype='str'))
\* burn = int(0.25*chain.shape[0]); print(params)
CwLoadCell ==
    /\ cpc = "load"
    /\ cwChain' = LoadTxt(cwChainFile)
    /\ LET l == ListOfArray(LoadTxtStr(paramsTxt.text))
       IN IF l.err # ""
          THEN /\ cErr' = l.err
               /\ cpc' = "error"
               /\ UNCHANGED <<cwParams, cwBurn>>
          ELSE /\ cwParams' = l.items
               /\ cwBurn' = cwChain'.shape[1] \div 4
               /\ cpc' = "def_plot"
               /\ UNCHANGED cErr
    /\ UNCHANGED <<cwPsrs, cwNames, cwNdim, cwSampler, paramsTxt, cwChainFile,
                   cwPlotted>>
    /\ UNCHANGED notCw

\* def plot_param(name): ...
CwDefPlotParam ==
    /\ cpc = "def_plot"
    /\ cpc' = "plots"
    /\ UNCHANGED <<cErr, cwPsrs, cwNames, cwNdim, cwSampler, paramsTxt,
                   cwChainFile, cwChain, cwParams, cwBurn, cwPlotted>>
    /\ UNCHANGED notCw

\* the names a reader may hand to plot_param
PlotNames ==
    {CwStr.cos_gwtheta, CwStr.gwphi, CwStr.log10_mc, CwStr.log10_fgw, CwStr.phase0, CwStr.psi, CwStr.cos_inc, CwStr.log10_h}
        \cup {n \o <<"_">> \o CwStr.log10_equad : n \in CwPulsars}

\* plot_param(name) : hist(chain[burn:, params.index(name)], ...) ; a name
\* that is not in params is a ValueError
CwPlotParam ==
    /\ cpc = "plots"
    /\ Len(cwPlotted) < MaxPlots
    /\ \E name \in PlotNames :
           LET at == ListIndex(cwParams, name)
           IN IF at.ok
              THEN /\ cwPlotted' = Append(cwPlotted,
                                          [name |-> name,
                                           col |-> Column(cwChain, cwBurn, at.idx)])
                   /\ UNCHANGED <<cpc, cErr>>
              ELSE /\ cErr' = "ValueError"
                   /\ cpc' = "error"
                   /\ UNCHANGED cwPlotted
    /\ UNCHANGED <<cwPsrs, cwNames, cwNdim, cwSampler, paramsTxt, cwChainFile,
                   cwChain, cwParams, cwBurn>>
    /\ UNCHANGED notCw

InitCw ==
    /\ CmdIdle
    /\ GwbIdle
    /\ CwStart
    /\ cpc = "pta"
    /\ cwPsrs \in CwPsrLists
    /\ RunIdle
    /\ ImpIdle
    /\ FnIdle

NextCw ==
    \/ CwPtaCell
    \/ CwJumpCell
    \/ CwSampleCall
    \/ CwSampleStep
    \/ CwSampleReturn
    \/ CwLoadCell
    \/ CwDefPlotParam
    \/ CwPlotParam

SpecCw == InitCw /\ [][NextCw]_vars

-----------------------------------------------------------------------------
(* Properties of cw_exercises.                                             *)

CwLoaded == cpc \in {"def_plot", "plots"}

\* C10: the list read back from chains//params.txt equals
\* list(pta.param_names) as written, in length and order (reading it back
\* never fails), so params.index(name) is the position of name in
\* pta.param_names and plot_param(name) draws the chain column of that
\* parameter.
C10_ParamsRoundTrip ==
    /\ CwLoaded =>
           /\ Len(cwParams) = Len(cwNames)
           /\ cwParams = cwNames
           /\ \A i \in 1..Len(cwNames) :
                  /\ ListIndex(cwParams, cwNames[i]).ok
                  /\ ListIndex(cwParams, cwNames[i]).idx = i - 1
    /\ cErr # "" => (cwNames = <<>> \/ cwParams = cwNames)
    /\ \A n \in 1..Len(cwPlotted) :
           /\ Len(cwPlotted[n].col) = MaxSamples - cwBurn
           /\ \A k \in 1..Len(cwPlotted[n].col) :
                  cwPlotted[n].col[k] = Value("param", cwPlotted[n].name, cwBurn + k)

C10_Witness ==
    /\ cpc = "plots"
    /\ Len(cwPsrs) = 2
    /\ Len(cwParams) = 10
    /\ Len(cwPlotted) = 2
    /\ cwPlotted[1].name = CwStr.log10_h
    /\ cwPlotted[2].name = cwPsrs[1].name \o <<"_">> \o CwStr.log10_equad
    /\ cwPlotted[1].col # <<>>

-----------------------------------------------------------------------------
(* The notebooks of gw_detection/ run top to bottom.                       *)
(*                                                                         *)
(* A notebook is the sequence of its code cells and a cell the sequence    *)
(* of its statements. A statement is described by                          *)
(*   lines      its first and last line in the .ipynb file                 *)
(*   step       the pipeline step it belongs to: 1 a Pulsar object is      *)
(*              made from timing data, 2 a parameter.* prior is declared,  *)
(*              3 signals are built, summed or put into a PTA, 4 the       *)
(*              sampler is prepared or run, 5 result files are loaded or   *)
(*              plotted, 0 anything else                                   *)
(*   uses       the names it evaluates, loopUses those it evaluates only   *)
(*              in the body of a loop over psrs                            *)
(*   defs       the names it binds                                         *)
(*   needsPsrs  whether it raises ValueError when there is no pulsar       *)
(*              (np.max and np.hstack of nothing)                          *)
(*   reads      the chain and parameter-name files it loads                *)
(*   writes, by the chain and parameter-name files it writes, and whether  *)
(*              the writing code is the notebook's own ("notebook"), the   *)
(*              sample method of PTMCMCSampler ("sampler") or              *)
(*              enterprise_extensions' setup_sampler ("setup_sampler")     *)
(*   kind       "sample" for a call of sampler.sample, else "plain"        *)
(* Statements of one cell that succeed or fail together are one entry.     *)
(* Names of imported modules are left out: the import cells bind them and  *)
(* do not fail. Cells that hold only comments have no statement and are    *)
(* left out.                                                               *)

Stmt(first, last, step, uses, defs) ==
    [lines |-> <<first, last>>, step |-> step, uses |-> uses,
     loopUses |-> {}, defs |-> defs, needsPsrs |-> FALSE, reads |-> {},
     writes |-> {}, by |-> "", kind |-> "plain"]

\* stochastic_gwb_analysis.ipynb
NbGwb ==
    LET chainTxt == [path |-> "./chains/dataset1_crn/chain_1.txt",
                     kind |-> "chain"]
    IN <<
    << Stmt(36, 61, 0, {}, {}) >>,
    << Stmt(83, 84, 0, {}, {"psrlist"}) >>,
    << Stmt(107, 107, 0, {}, {"datadir"}) >>,
    << Stmt(122, 127, 0, {"datadir", "psrlist"}, {"parfiles", "timfiles"}) >>,
    << Stmt(141, 141, 0, {"parfiles"}, {}) >>,
    << Stmt(172, 175, 1, {"parfiles", "timfiles"}, {"psrs"}) >>,
    << Stmt(206, 206, 0, {}, {"noisefiles"}) >>,
    << Stmt(221, 224, 0, {"noisefiles"}, {"params"}) >>,
    << Stmt(270, 271, 0, {"psrs"}, {"tmin", "tmax"}),
       [Stmt(272, 272, 0, {"tmax", "tmin"}, {"Tspan"})
            EXCEPT !.needsPsrs = TRUE] >>,
    << Stmt(288, 291, 0, {}, {"selection", "selection2"}) >>,
    << Stmt(316, 330, 2, {},
            {"efac", "equad", "ecorr", "log10_A", "gamma", "log10_A_dm",
             "gamma_dm", "log10_A_gw", "gamma_gw"}) >>,
    << Stmt(358, 363, 3,
            {"efac", "equad", "ecorr", "selection", "selection2",
             "log10_A", "gamma"},
            {"ef", "eq", "ec", "pl"}),
       Stmt(364, 383, 3,
            {"pl", "Tspan", "log10_A_dm", "gamma_dm", "log10_A_gw",
             "gamma_gw"},
            {"rn", "dm_basis", "dm_pl", "dm_gp", "cpl", "gw", "tm"}) >>,
    << Stmt(399, 399, 3, {"eq", "rn", "dm_gp", "tm", "gw"}, {"s"}) >>,
    << Stmt(415, 415, 3, {}, {"models"}),
       [Stmt(417, 418, 3, {"psrs"}, {})
            EXCEPT !.loopUses = {"models", "s"}],
       Stmt(420, 420, 3, {"models"}, {"pta"}) >>,
    << Stmt(434, 434, 0, {"pta"}, {}) >>,
    << Stmt(456, 456, 3, {"pta", "params"}, {}) >>,
    << [Stmt(478, 478, 4, {"pta"}, {"x0"}) EXCEPT !.needsPsrs = TRUE],
       Stmt(479, 479, 4, {"x0"}, {"ndim"}) >>,
    << Stmt(502, 502, 4, {"ndim"}, {"cov"}),
       Stmt(504, 505, 4, {"ndim", "pta", "cov"}, {"sampler"}) >>,
    << Stmt(527, 527, 4, {}, {"N"}),
       [Stmt(528, 528, 4, {"pta"}, {"x0"}) EXCEPT !.needsPsrs = TRUE],
       [Stmt(529, 529, 4, {"sampler", "x0", "N"}, {})
            EXCEPT !.kind = "sample", !.writes = {chainTxt},
                   !.by = "sampler"] >>,
    << [Stmt(551, 551, 5, {}, {"chain"}) EXCEPT !.reads = {chainTxt}],
       Stmt(552, 552, 5, {"chain"}, {"burn"}) >>,
    << Stmt(561, 561, 5, {"chain"}, {}) >>,
    << Stmt(570, 571, 5, {"chain"}, {}) >>,
    << Stmt(585, 585, 5, {"chain", "burn"}, {}) >>,
    << Stmt(609, 610, 5, {"chain", "burn"}, {"upper"}) >>
    >>

\* single_pulsar_noise.ipynb. outdir + 'chain_1.txt' (line 369) and
\* outdir + '/chain_1.txt' (line 545) name the same file, outdir ending
\* in a slash.
NbSpn ==
    LET chainTxt == [path |-> "./chains/noise_run_J0613-0200/chain_1.txt",
                     kind |-> "chain"]
        parsTxt == [path |-> "./chains/noise_run_J0613-0200/pars.txt",
                    kind |-> "names"]
    IN <<
    << Stmt(37, 62, 0, {}, {}) >>,
    << Stmt(116, 117, 0, {}, {"par", "tim"}),
       Stmt(118, 118, 1, {"par", "tim"}, {"psr"}) >>,
    << Stmt(133, 135, 0, {"psr"}, {"tmin", "tmax", "Tspan"}) >>,
    << Stmt(151, 154, 0, {}, {"selection", "selection2"}) >>,
    << Stmt(177, 190, 2, {},
            {"efac", "equad", "ecorr", "log10_A", "gamma", "log10_A_dm",
             "gamma_dm"}) >>,
    << Stmt(213, 218, 3,
            {"efac", "equad", "ecorr", "selection", "selection2",
             "log10_A", "gamma"},
            {"ef", "eq", "ec", "pl"}),
       Stmt(219, 227, 3, {"pl", "Tspan", "log10_A_dm", "gamma_dm"},
            {"rn", "dm_basis", "dm_pl", "dm_gp", "tm"}) >>,
    << Stmt(249, 249, 3, {"ef", "eq", "ec", "rn", "dm_gp", "tm"},
            {"models"}),
       Stmt(251, 251, 3, {"models", "psr"}, {"pta"}) >>,
    << Stmt(265, 265, 0, {"pta"}, {}) >>,
    << Stmt(287, 288, 4, {"pta"}, {"x0", "ndim"}) >>,
    << Stmt(311, 311, 4, {"ndim"}, {"cov"}),
       Stmt(314, 314, 4, {"psr"}, {"outdir"}),
       Stmt(317, 319, 4, {"ndim", "pta", "cov", "outdir"}, {"sampler"}) >>,
    << Stmt(341, 341, 4, {}, {"N"}),
       [Stmt(347, 347, 4, {"sampler", "x0", "N"}, {})
            EXCEPT !.kind = "sample", !.writes = {chainTxt},
                   !.by = "sampler"] >>,
    << [Stmt(369, 369, 5, {"outdir"}, {"chain"})
            EXCEPT !.reads = {chainTxt}],
       Stmt(370, 370, 5, {"chain"}, {"burn"}) >>,
    << Stmt(386, 386, 5, {"pta"}, {"ind"}) >>,
    << Stmt(401, 402, 5, {"chain", "burn", "ind"}, {}) >>,
    << Stmt(417, 421, 5, {"chain", "burn", "ind"}, {}) >>,
    << Stmt(436, 440, 5, {"pta", "chain", "burn"},
            {"ind_redA", "ind_redgam", "fig"}) >>,
    << Stmt(468, 469, 0, {}, {"models", "model_utils"}) >>,
    << Stmt(485, 489, 3, {"models", "psr", "params"}, {"pta"}) >>,
    << [Stmt(507, 507, 4, {"model_utils", "pta", "outdir"}, {"sampler"})
            EXCEPT !.writes = {parsTxt}, !.by = "setup_sampler"] >>,
    << Stmt(523, 523, 4, {}, {"N"}),
       Stmt(524, 524, 4, {"pta"}, {"x0"}),
       [Stmt(530, 530, 4, {"sampler", "x0", "N"}, {})
            EXCEPT !.kind = "sample", !.writes = {chainTxt},
                   !.by = "sampler"] >>,
    << [Stmt(545, 545, 5, {"outdir"}, {"chain"})
            EXCEPT !.reads = {chainTxt}],
       Stmt(546, 546, 5, {"chain"}, {"burn"}),
       [Stmt(547, 547, 5, {"outdir"}, {"pars"}) EXCEPT !.reads = {parsTxt}],
       Stmt(549, 549, 5, {"model_utils", "chain", "pars"}, {"pp"}) >>,
    << Stmt(564, 564, 5, {"pp"}, {}) >>
    >>

\* cw_exercises.ipynb. chaindir + '/chain_1.txt' is chains//chain_1.txt,
\* the file chain_1.txt of outDir = 'chains/'.
NbCw ==
    LET chainTxt == [path |-> "chains/chain_1.txt", kind |-> "chain"]
        paramsFile == [path |-> "chains/params.txt", kind |-> "names"]
        cwPriorNames == {"cos_gwtheta", "gwphi", "log10_mc", "log10_fgw",
                         "phase0", "psi", "cos_inc", "log10_h"}
    IN <<
    << Stmt(21, 28, 0, {}, {}) >>,
    << Stmt(40, 81, 0, {}, {"make_fake_pulsar"}) >>,
    << Stmt(110, 113, 0, {"make_fake_pulsar"}, {"par1", "par2", "par3"}) >>,
    << Stmt(124, 124, 0, {"par1", "t"}, {"psr1"}) >>,
    << Stmt(142, 155, 0, {}, {"observe"}) >>,
    << Stmt(174, 180, 0, {"observe", "par1", "par2", "par3"},
            {"tobj1", "tobj2", "tobj3"}) >>,
    << Stmt(236, 240, 0, {}, {"spittime"}) >>,
    << Stmt(311, 322, 0, {}, {}) >>,
    << Stmt(334, 334, 1, {}, {"psr"}) >>,
    << Stmt(347, 347, 0, {}, {"psrs"}) >>,
    << Stmt(366, 367, 2, {}, {"efac", "equad"}),
       Stmt(372, 376, 3, {"efac", "equad"}, {"ef", "eq", "tm"}) >>,
    << Stmt(395, 404, 2, {}, cwPriorNames),
       Stmt(407, 410, 3, cwPriorNames, {"cw_wf", "cw"}) >>,
    << Stmt(422, 422, 3, {"ef", "eq", "tm", "cw"}, {"s"}) >>,
    << [Stmt(441, 441, 3, {"psrs"}, {"model"}) EXCEPT !.loopUses = {"s"}],
       Stmt(442, 442, 3, {"model"}, {"pta"}),
       [Stmt(445, 445, 4, {"pta"}, {"x0"}) EXCEPT !.needsPsrs = TRUE],
       Stmt(446, 446, 4, {"x0"}, {"ndim"}),
       Stmt(449, 452, 4, {"ndim", "pta"}, {"cov", "groups"}),
       Stmt(455, 455, 4, {}, {"chaindir"}),
       Stmt(458, 459, 4, {"ndim", "pta", "cov", "groups", "chaindir"},
            {"sampler"}),
       Stmt(462, 462, 4, {"chaindir"}, {"filename"}),
       [Stmt(463, 463, 4, {"filename", "pta"}, {})
            EXCEPT !.writes = {paramsFile}, !.by = "notebook"] >>,
    << Stmt(482, 482, 4, {"pta"}, {"jp"}),
       Stmt(483, 484, 4, {"sampler", "jp"}, {}) >>,
    << Stmt(502, 502, 4, {}, {"N"}),
       [Stmt(503, 503, 4, {"sampler", "x0", "N"}, {})
            EXCEPT !.kind = "sample", !.writes = {chainTxt},
                   !.by = "sampler"] >>,
    << [Stmt(516, 516, 5, {"chaindir"}, {"chain"})
            EXCEPT !.reads = {chainTxt}],
       [Stmt(517, 517, 5, {"chaindir"}, {"params"})
            EXCEPT !.reads = {paramsFile}],
       Stmt(520, 520, 5, {"chain"}, {"burn"}),
       Stmt(522, 522, 5, {"params"}, {}) >>,
    << Stmt(534, 540, 5, {}, {"plot_param"}) >>
    >>

Notebook(n) ==
    CASE n = "gwb" -> NbGwb
      [] n = "spn" -> NbSpn
      [] n = "cw" -> NbCw

Notebooks == {"gwb", "spn", "cw"}

Statements(n) ==
    UNION {{Notebook(n)[i][j] : j \in DOMAIN Notebook(n)[i]} :
               i \in DOMAIN Notebook(n)}

\* the chain and parameter-name files the notebooks name
RunFiles ==
    UNION {st.reads \cup st.writes : st \in UNION {Statements(n) : n \in Notebooks}}

\* the statement the kernel executes next
Cur == Notebook(nb)[kCell][kStmt]

\* what executing st does in the present state: names are looked up
\* before the call is made, np.max and np.hstack raise ValueError on
\* nothing, np.loadtxt raises IOError on a file that is not there
OutcomeNoFileCheck(st) ==
    IF \/ ~(st.uses \subseteq bound)
       \/ hasPsrs /\ ~(st.loopUses \subseteq bound)
    THEN "NameError"
    ELSE IF st.needsPsrs /\ ~hasPsrs THEN "ValueError"
    ELSE "ok"

Outcome(st) ==
    IF \/ ~(st.uses \subseteq bound)
       \/ hasPsrs /\ ~(st.loopUses \subseteq bound)
    THEN "NameError"
    ELSE IF st.needsPsrs /\ ~hasPsrs THEN "ValueError"
    ELSE IF \E f \in st.reads : disk[f].state = "absent" THEN "IOError"
    ELSE "ok"

\* the files after st has written what it writes
WriteFilesAsSampler(d, st) ==
    [f \in DOMAIN d |->
        IF f \in st.writes THEN [state |-> "complete", by |-> "sampler"]
        ELSE d[f]]

WriteFiles(d, st) ==
    [f \in DOMAIN d |->
        IF f \in st.writes THEN [state |-> "complete", by |-> st.by]
        ELSE d[f]]

\* the record of one executed statement
Executed(st, res) ==
    [lines |-> st.lines, step |-> st.step, kind |-> st.kind, res |-> res,
     reads |-> IF res = "ok"
               THEN {[file |-> f, by |-> disk[f].by, state |-> disk[f].state] :
                        f \in st.reads}
               ELSE {},
     writes |-> IF res = "ok" THEN st.writes ELSE {},
     by |-> st.by]

\* the kernel goes to the cell after the present one
GoNextCell ==
    IF kCell = Len(Notebook(nb))
    THEN /\ kMode' = "done"
         /\ UNCHANGED <<kCell, kStmt>>
    ELSE /\ kCell' = kCell + 1
         /\ kStmt' = 1
         /\ kMode' = "ready"

\* the kernel goes to the statement after the present one
GoNextStatement ==
    IF kStmt < Len(Notebook(nb)[kCell])
    THEN /\ kStmt' = kStmt + 1
         /\ kMode' = "ready"
         /\ UNCHANGED kCell
    ELSE GoNextCell

\* a statement other than sampler.sample completes
RunStatement ==
    /\ kMode = "ready"
    /\ Cur.kind = "plain"
    /\ Outcome(Cur) = "ok"
    /\ bound' = bound \cup Cur.defs
    /\ disk' = WriteFiles(disk, Cur)
    /\ ran' = Append(ran, Executed(Cur, "ok"))
    /\ GoNextStatement
    /\ UNCHANGED <<nb, hasPsrs>>
    /\ UNCHANGED notRun

\* sampler.sample(x0, N, ...) is called: resume=False, the sampler starts
\* chain_1.txt of its outDir afresh and appends to it while it runs
RunSampleCall ==
    /\ kMode = "ready"
    /\ Cur.kind = "sample"
    /\ Outcome(Cur) = "ok"
    /\ disk' = [f \in DOMAIN disk |->
                   IF f \in Cur.writes
                   THEN [state |-> "partial", by |-> Cur.by]
                   ELSE disk[f]]
    /\ kMode' = "sampling"
    /\ UNCHANGED <<nb, kCell, kStmt, bound, hasPsrs, ran>>
    /\ UNCHANGED notRun

\* sampler.sample returns after its N iterations
RunSampleReturn ==
    /\ kMode = "sampling"
    /\ disk' = WriteFiles(disk, Cur)
    /\ ran' = Append(ran, Executed(Cur, "ok"))
    /\ GoNextStatement
    /\ UNCHANGED <<nb, bound, hasPsrs>>
    /\ UNCHANGED notRun

\* a statement raises: the rest of its cell is not executed
RunRaise ==
    /\ kMode = "ready"
    /\ Outcome(Cur) # "ok"
    /\ ran' = Append(ran, Executed(Cur, Outcome(Cur)))
    /\ kMode' = "raised"
    /\ UNCHANGED <<nb, kCell, kStmt, bound, hasPsrs, disk>>
    /\ UNCHANGED notRun

\* Run All: the kernel drops the cells queued behind the one that raised
RunAllStops ==
    /\ kMode = "raised"
    /\ kMode' = "halted"
    /\ UNCHANGED <<nb, kCell, kStmt, bound, hasPsrs, disk, ran>>
    /\ UNCHANGED notRun

\* cell by cell: the reader runs the next cell after the one that raised
RunNextCell ==
    /\ kMode = "raised"
    /\ GoNextCell
    /\ UNCHANGED <<nb, bound, hasPsrs, disk, ran>>
    /\ UNCHANGED notRun

\* a fresh kernel in a working directory without chains. hasPsrs: whether
\* ./dataset1 holds pulsars of psr_names.npy (stochastic_gwb_analysis),
\* whether the reader has appended pulsars to psrs (cw_exercises);
\* single_pulsar_noise has its one psr. The par and tim files the Pulsar
\* calls name are there.
InitRun ==
    /\ CmdIdle
    /\ GwbIdle
    /\ CwIdle
    /\ nb \in Notebooks
    /\ hasPsrs \in BOOLEAN
    /\ nb = "spn" => hasPsrs
    /\ kCell = 1
    /\ kStmt = 1
    /\ kMode = "ready"
    /\ bound = {}
    /\ disk = [f \in RunFiles |-> [state |-> "absent", by |-> ""]]
    /\ ran = <<>>
    /\ ImpIdle
    /\ FnIdle

NextRun ==
    \/ RunStatement
    \/ RunSampleCall
    \/ RunSampleReturn
    \/ RunRaise
    \/ RunAllStops
    \/ RunNextCell

SpecRun == InitRun /\ [][NextRun]_vars

-----------------------------------------------------------------------------
(* Properties of the notebooks run top to bottom.                          *)

\* the statements of ran that belong to a pipeline step
Stepped == {i \in DOMAIN ran : ran[i].step > 0}

\* a statement of an earlier step executed after one of a later step
GoesBack(i, j) == i < j /\ ran[j].step < ran[i].step

\* every chain file that was loaded was complete, and a call of
\* sampler.sample that writes it had returned before
ChainReadAfterSample ==
    \A j \in DOMAIN ran : \A r \in ran[j].reads :
        r.file.kind = "chain" =>
            /\ r.state = "complete"
            /\ \E i \in 1..(j - 1) :
                   /\ ran[i].kind = "sample"
                   /\ ran[i].res = "ok"
                   /\ r.file \in ran[i].writes

C9_NotebookNeverWrites ==
    /\ \A j \in DOMAIN ran : \A r \in ran[j].reads :
           r.by \in {"sampler", "setup_sampler"}
    /\ \A j \in DOMAIN ran : ran[j].writes # {} => ran[j].by # "notebook"
    /\ \A f \in RunFiles : disk[f].by # "notebook"

\* C9: every chain file a cell reads was written by sampler.sample, and no
\* statement of a notebook writes a chain file; the parameter-name file of
\* single_pulsar_noise (pars.txt) is written by setup_sampler of
\* enterprise_extensions, the one of cw_exercises (chains//params.txt) is
\* written by the notebook itself, with np.savetxt at line 463, and read
\* back by it at line 517.
C9_ChainsBySamplerNamesByNotebookInCw ==
    LET writer(f) == IF f.kind = "chain" THEN "sampler"
                     ELSE IF nb = "cw" THEN "notebook"
                     ELSE "setup_sampler"
    IN /\ \A f \in RunFiles :
              disk[f].state # "absent" =>
                  /\ f \in UNION {st.writes : st \in Statements(nb)}
                  /\ disk[f].by = writer(f)
       /\ \A j \in DOMAIN ran : \A r \in ran[j].reads :
              /\ r.state = "complete"
              /\ r.by = writer(r.file)
       /\ \A j \in DOMAIN ran :
              ran[j].writes # {} /\ ran[j].by = "notebook" =>
                  /\ nb = "cw"
                  /\ ran[j].lines = <<463, 463>>
                  /\ \A f \in ran[j].writes : f.kind = "names"
       /\ \A j \in DOMAIN ran : \A f \in ran[j].writes :
              f.kind = "chain" => ran[j].kind = "sample" /\ ran[j].by = "sampler"

\* cw_exercises, its list of pulsars filled, has written params.txt
\* itself and read it back after the sampler returned
C9_Witness ==
    /\ nb = "cw"
    /\ hasPsrs
    /\ \E i, j \in DOMAIN ran :
           /\ i < j
           /\ ran[i].lines[1] = 463 /\ ran[i].res = "ok"
           /\ ran[j].lines[1] = 517
           /\ \E r \in ran[j].reads : r.by = "notebook" /\ r.file.kind = "names"
    /\ \E j \in DOMAIN ran :
           /\ ran[j].lines[1] = 516
           /\ \E r \in ran[j].reads : r.by = "sampler"

-----------------------------------------------------------------------------
(* Further properties of stochastic_gwb_analysis.                          *)

\* the cell of the psrs loop has been executed
PulsarsLoaded ==
    gpc \notin {"idle", "imports", "psrlist", "datadir", "parfiles",
                "len_parfiles", "psrs"}

\* C11: after the loop psrs holds one Pulsar per pair of zip(parfiles,
\* timfiles), so len(psrs) = min(len(parfiles), len(timfiles)), in the
\* order of the sorted file lists; a pulsar the distance warning was
\* printed for is in psrs like any other.
C11_WarningsTolerated ==
    PulsarsLoaded =>
        /\ Len(psrs) = (IF Len(parfiles) < Len(timfiles) THEN Len(parfiles)
                        ELSE Len(timfiles))
        /\ \A i \in DOMAIN psrs :
               /\ psrs[i].par = parfiles[i]
               /\ psrs[i].tim = timfiles[i]
        /\ \A i, j \in DOMAIN psrs : i < j => StrLess(psrs[i].par, psrs[j].par)
        /\ \A i \in DOMAIN warned : \E j \in DOMAIN psrs : psrs[j].name = warned[i]

\* two pulsars loaded, the warning printed for the first of them
C11_Witness ==
    /\ PulsarsLoaded
    /\ Len(psrs) = 2
    /\ Len(warned) = 1
    /\ warned[1] = psrs[1].name

-----------------------------------------------------------------------------
(* The import tutorial (unnamed/part_000): a Python 3 kernel, the reader  *)
(* executes the selected cell (the selection moves to the next cell),     *)
(* selects another cell by hand, or restarts the kernel.                  *)

\* how often the reader selects a cell by hand
MaxJumps == 1
\* kernel restarts
MaxRestarts == 1

\* the code cells: per statement its lines, the names it looks up in the
\* order of evaluation (print, dir and help are builtins) and the names it
\* binds. astropy is installed. The last cell is empty.
NbImp ==
    LET L(first, last, uses, defs) ==
            [lines |-> <<first, last>>, uses |-> uses, defs |-> defs]
    IN <<
    << L(27, 27, <<"getcwd">>, {}) >>,
    << L(47, 47, <<>>, {"os"}) >>,
    << L(63, 63, <<"getcwd">>, {}) >>,
    << L(81, 81, <<"os">>, {}) >>,
    << L(116, 116, <<>>, {"sys"}), L(117, 117, <<"sys">>, {}) >>,
    << L(147, 147, <<>>, {"u"}),
       L(150, 150, <<>>, {"coord"}),
       L(153, 153, <<"coord", "u">>, {"my_coord"}),
       L(155, 155, <<"my_coord">>, {}) >>,
    << L(183, 183, <<"my_coord">>, {}) >>,
    << L(193, 193, <<"my_coord">>, {}) >>,
    << L(203, 203, <<"my_coord">>, {}) >>,
    << L(219, 219, <<"my_coord">>, {}) >>,
    << L(239, 239, <<"coord">>, {}) >>,
    << L(255, 255, <<"coord">>, {}) >>,
    << L(271, 271, <<"coord">>, {}) >>,
    << L(287, 287, <<"coord">>, {}) >>,
    << L(303, 303, <<"coord", "u">>, {"my_other_coord"}),
       L(305, 305, <<"my_coord", "my_other_coord">>, {}) >>,
    << L(321, 321, <<"my_coord", "my_other_coord">>, {}) >>,
    << L(337, 337, <<>>, {"sys"}), L(338, 338, <<"sys">>, {}) >>,
    << >>
    >>

\* the namespace after a statement, were import os to bind the functions
\* of the module as well
BindsMembers(b, st) ==
    b \cup st.defs \cup (IF "os" \in st.defs THEN {"getcwd"} ELSE {})

\* the namespace after statement st has completed
Binds(b, st) == b \cup st.defs

\* a cell executed without looking any name up
RECURSIVE CellResultNoLookup(_, _, _)
CellResultNoLookup(cell, k, b) ==
    IF k > Len(cell) THEN [names |-> b, exc |-> "", name |-> ""]
    ELSE CellResultNoLookup(cell, k + 1, Binds(b, cell[k]))

\* executing a cell from its statement k on in namespace b: the first
\* name that is not bound raises NameError and ends the cell
RECURSIVE CellResult(_, _, _)
CellResult(cell, k, b) ==
    IF k > Len(cell) THEN [names |-> b, exc |-> "", name |-> ""]
    ELSE LET missing == SelectSeq(cell[k].uses, LAMBDA x : x \notin b)
         IN IF missing # <<>>
            THEN [names |-> b, exc |-> "NameError", name |-> missing[1]]
            ELSE CellResult(cell, k + 1, Binds(b, cell[k]))

\* Shift-Enter: the selected cell is executed, the next one selected
ImpExecute ==
    /\ iSel \in 1..(Len(NbImp) - 1)
    /\ LET r == CellResult(NbImp[iSel], 1, inames)
       IN /\ inames' = r.names
          /\ ires' = [ires EXCEPT ![iSel] = [exc |-> r.exc, name |-> r.name]]
    /\ ipassed' = IF ipassed = iSel - 1 THEN iSel ELSE -1
    /\ iSel' = iSel + 1
    /\ UNCHANGED <<ijumps, irestarts, iprev>>
    /\ UNCHANGED notImp

\* the reader selects a cell
ImpSelect ==
    /\ ijumps < MaxJumps
    /\ \E c \in 1..(Len(NbImp) - 1) :
           /\ c # iSel
           /\ iSel' = c
    /\ ijumps' = ijumps + 1
    /\ UNCHANGED <<inames, ires, ipassed, irestarts, iprev>>
    /\ UNCHANGED notImp

\* Kernel > Restart and clear output, were the namespace kept
ImpRestartKeepsNames ==
    /\ irestarts < MaxRestarts
    /\ irestarts' = irestarts + 1
    /\ iprev' = IF ipassed = Len(NbImp) - 1
                THEN [res |-> ires, passed |-> ipassed]
                ELSE [res |-> <<>>, passed |-> -1]
    /\ ires' = [c \in DOMAIN NbImp |-> [exc |-> "-", name |-> ""]]
    /\ ipassed' = 0
    /\ UNCHANGED <<inames, iSel, ijumps>>
    /\ UNCHANGED notImp

\* Kernel > Restart and clear output: a new kernel, the selection stays
ImpRestart ==
    /\ irestarts < MaxRestarts
    /\ irestarts' = irestarts + 1
    /\ iprev' = IF ipassed = Len(NbImp) - 1
                THEN [res |-> ires, passed |-> ipassed]
                ELSE [res |-> <<>>, passed |-> -1]
    /\ inames' = {}
    /\ ires' = [c \in DOMAIN NbImp |-> [exc |-> "-", name |-> ""]]
    /\ ipassed' = 0
    /\ UNCHANGED <<iSel, ijumps>>
    /\ UNCHANGED notImp

InitImp ==
    /\ CmdIdle
    /\ GwbIdle
    /\ CwIdle
    /\ RunIdle
    /\ FnIdle
    /\ iSel = 1
    /\ inames = {}
    /\ ires = [c \in DOMAIN NbImp |-> [exc |-> "-", name |-> ""]]
    /\ ipassed = 0
    /\ ijumps = 0
    /\ irestarts = 0
    /\ iprev = [res |-> <<>>, passed |-> -1]

NextImp ==
    \/ ImpExecute
    \/ ImpSelect
    \/ ImpRestart

SpecImp == InitImp /\ [][NextImp]_vars

-----------------------------------------------------------------------------
(* Properties of the import tutorial.                                      *)

\* the step executes cell c
Executes(c) == iSel = c /\ iSel' = c + 1 /\ ijumps' = ijumps

NameErrorFor(n) == [exc |-> "NameError", name |-> n]

Succeeded == [exc |-> "", name |-> ""]

\* C12: whatever the order of execution, the cell os.getcwd() (the fourth
\* code cell) succeeds if the cell import os (the second) has been
\* executed since the last restart, and fails with NameError for the name
\* os if not.
C12_OsGetcwdNeedsImportOs ==
    [][Executes(4) =>
          ires'[4] = (IF ires[2] = Succeeded THEN Succeeded
                      ELSE NameErrorFor("os"))]_vars

\* a full pass, a restart, and then os.getcwd() executed before import os
C12_Witness ==
    /\ irestarts = 1
    /\ iprev.passed = Len(NbImp) - 1
    /\ iprev.res[4] = Succeeded
    /\ ires[2].exc = "-"
    /\ ires[4] = NameErrorFor("os")

\* C13: the cells getcwd() (the first and the third code cell) fail with
\* NameError for getcwd whenever they are executed, before and after
\* import os: getcwd is never bound, and executing import os adds the name
\* os to the namespace and nothing else.
C13_GetcwdNeverBound ==
    /\ [](/\ "getcwd" \notin inames
          /\ \A c \in {1, 3} :
                 iSel # 0 => ires[c] \in {[exc |-> "-", name |-> ""],
                                          NameErrorFor("getcwd")})
    /\ [][Executes(2) => inames' = inames \cup {"os"}]_vars
    /\ [][Executes(1) \/ Executes(3) =>
             /\ ires'[iSel] = NameErrorFor("getcwd")
             /\ inames' = inames]_vars

\* getcwd() has failed before import os and after it
C13_Witness ==
    /\ ires[1] = NameErrorFor("getcwd")
    /\ ires[2] = Succeeded
    /\ ires[3] = NameErrorFor("getcwd")
    /\ ipassed = 3
    /\ "os" \in inames

\* what the cells give in a pass from the first to the last in order
PassResults ==
    [c \in DOMAIN NbImp |->
        IF c \in {1, 3} THEN NameErrorFor("getcwd")
        ELSE IF c = Len(NbImp) THEN [exc |-> "-", name |-> ""]
        ELSE Succeeded]

\* C14: a restart empties the namespace; a pass through all code cells in
\* document order after it gives every cell the result it had in the first
\* such pass (NameError for the two getcwd() cells, success for the
\* others) and ends with os, sys, u, coord, my_coord and my_other_coord
\* bound, and nothing else.
C14_RestartThenSamePass ==
    /\ [][irestarts' # irestarts => inames' = {}]_vars
    /\ [](ipassed = Len(NbImp) - 1 =>
              /\ ires = PassResults
              /\ inames = {"os", "sys", "u", "coord", "my_coord",
                           "my_other_coord"}
              /\ iprev.passed = Len(NbImp) - 1 => ires = iprev.res)

\* a pass, a restart, and a second pass
C14_Witness ==
    /\ irestarts = 1
    /\ iprev.passed = Len(NbImp) - 1
    /\ ipassed = Len(NbImp) - 1
    /\ ires[Len(NbImp) - 1] = Succeeded

-----------------------------------------------------------------------------
(* Properties of the PTA model of stochastic_gwb_analysis.                 *)

\* the PTA cell has been executed
PtaBuilt ==
    gpc \in {"pta_params", "set_default", "x0", "sampler", "sample",
             "sampling", "load", "shape", "plot", "hist", "upper", "done"}

\* the parameters of the model that has been built
BuiltParams == ModelParams(psrs, fullModel, sigs, priors)

\* C15: once the PTA is built, the model of every pulsar contains the EFAC,
\* the EQUAD and the ECORR signal, each with its parameter present as a
\* Constant parameter, and none of these parameters is sampled.
C15_AllWhiteNoiseInModel ==
    PtaBuilt /\ psrs # <<>> =>
        /\ {"ef", "eq", "ec"} \subseteq {fullModel[j] : j \in DOMAIN fullModel}
        /\ \A i \in DOMAIN psrs :
               \A a \in {GwbStr.efac, GwbStr.log10_equad, GwbStr.log10_ecorr} :
                   /\ [name |-> psrs[i].name \o <<"_">> \o a, kind |-> "Constant"]
                          \in BuiltParams
                   /\ \A k \in DOMAIN ptaNames :
                          ptaNames[k] # psrs[i].name \o <<"_">> \o a

X0Drawn ==
    gpc \in {"sampler", "sample", "sampling", "load", "shape", "plot", "hist",
             "upper", "done"}

\* the parameters of the pulsar of name n that are sampled
SampledOf(n) ==
    {k \in DOMAIN ptaNames :
        /\ Len(ptaNames[k]) > Len(n)
        /\ SubSeq(ptaNames[k], 1, Len(n) + 1) = n \o <<"_">>}

\* C16: the GW parameters are one instance for all pulsars: with at least
\* one pulsar, exactly one sampled parameter is log10_A_gw, gamma_gw is the
\* constant 4.33 and is not sampled, every pulsar has its own red-noise and
\* DM amplitude and index, and ndim = 4 * Npsr + 1.
C16_OneGwAmplitudeForAll ==
    X0Drawn /\ Len(psrs) >= 1 =>
        /\ Cardinality({k \in DOMAIN ptaNames : ptaNames[k] = GwbStr.log10_A_gw}) = 1
        /\ priors.gamma_gw = [kind |-> "Constant", name |-> GwbStr.gamma_gw, value |-> "4.33"]
        /\ [name |-> GwbStr.gamma_gw, kind |-> "Constant"] \in BuiltParams
        /\ GwbStr.gamma_gw \notin DOMAIN defaults
        /\ \A k \in DOMAIN ptaNames : ptaNames[k] # GwbStr.gamma_gw
        /\ \A i \in DOMAIN psrs :
               {ptaNames[k] : k \in SampledOf(psrs[i].name)} =
                   {psrs[i].name \o <<"_">> \o GwbStr.log10_A,
                    psrs[i].name \o <<"_">> \o GwbStr.gamma,
                    psrs[i].name \o <<"_">> \o GwbStr.dm_gp \o <<"_">> \o GwbStr.log10_A,
                    psrs[i].name \o <<"_">> \o GwbStr.dm_gp \o <<"_">> \o GwbStr.gamma}
        /\ ndim = 4 * Len(psrs) + 1
        /\ Len(x0) = ndim

C16_Witness ==
    /\ X0Drawn
    /\ Len(psrs) = MaxPsr
    /\ ndim = 4 * MaxPsr + 1

FilesFiltered == gpc \notin {"idle", "imports", "psrlist", "datadir", "parfiles"}

\* the part of a file name before its first '.'
RECURSIVE UpToFirstDot(_)
UpToFirstDot(f) ==
    IF f = <<>> \/ f[1] = "." THEN <<>> ELSE <<f[1]>> \o UpToFirstDot(Tail(f))

\* the paths of the files of the listing that end in ext and whose name up
\* to the first '.' is in psrlist
Kept(ext) ==
    {datadir \o <<"/">> \o f :
        f \in {g \in dirlist : EndsWith(g, ext) /\ UpToFirstDot(g) \in psrlist}}

IsSortedList(l) == \A i, j \in DOMAIN l : i < j => StrLess(l[i], l[j])

\* C20: after the filter, parfiles and timfiles hold exactly the .par and
\* the .tim files of datadir whose base name up to the first '.' is in
\* psrlist, each once and in sorted order; every other file is dropped and
\* a pulsar of psrlist without a file adds nothing.
C20_FilterKeepsListedInOrder ==
    FilesFiltered =>
        /\ {parfiles[i] : i \in DOMAIN parfiles} = Kept(GwbStr.par)
        /\ {timfiles[i] : i \in DOMAIN timfiles} = Kept(GwbStr.tim)
        /\ IsSortedList(parfiles)
        /\ IsSortedList(timfiles)

\* a listing with a file of a listed pulsar whose name has two dots, a
\* file of a pulsar that is not listed, and a listed pulsar without files
C20_Witness ==
    /\ FilesFiltered
    /\ Len(timfiles) = 2
    /\ Stem(timfiles[1]) = Stem(timfiles[2])
    /\ \E f \in dirlist : UpToFirstDot(f) \notin psrlist
    /\ \E n \in psrlist : \A f \in dirlist : UpToFirstDot(f) # n

\* the step of the cell pta.set_default_params(params) is taken with the PTA
\* built, params filled from every noise file, and no sampler constructed
\* and no sample written yet
SetDefaultInOrder ==
    gpc = "set_default" /\ gpc' = "x0" =>
        /\ fullModel # <<>>
        /\ ptaNames = ParamNames(psrs, fullModel, sigs, priors)
        /\ nfIdx = Len(noisefiles) + 1
        /\ DOMAIN params = UNION {KeysOfFile(f) : f \in NoiseJsonFiles}
        /\ sampler = <<>>
        /\ chainFile = <<>>
        /\ sampler' = <<>>

\* the Constant parameters of the model that take their value from params
WhiteNoiseConstants ==
    {q.name : q \in {r \in BuiltParams : r.kind = "Constant" /\ priors.gamma_gw.name # r.name}}

Evaluating == gpc = "sampling"

\* C19 (as stated): set_default_params runs after the PTA is built and
\* params is filled and before the sampler exists, and while the sampler
\* evaluates the likelihood every Constant white-noise parameter of the
\* model has a value.
C19_NoEvaluationWithUnsetConstant ==
    /\ [][SetDefaultInOrder]_vars
    /\ [](Evaluating => \A n \in WhiteNoiseConstants : n \in DOMAIN defaults)

\* C19 (amended): set_default_params runs after the PTA is built and
\* params is filled and before the sampler exists, and while the sampler
\* evaluates the likelihood every Constant white-noise parameter of the
\* model that the noise files name has the value they give it.
C19_NoEvaluationBeforeDefaultsSet ==
    /\ [][SetDefaultInOrder]_vars
    /\ [](Evaluating =>
             \A n \in WhiteNoiseConstants :
                 n \in DOMAIN params => n \in DOMAIN defaults /\ defaults[n] = params[n])

\* the sampler runs on two pulsars, one with a noise file and one without
C19_Witness ==
    /\ Evaluating
    /\ Len(chainFile) >= 1
    /\ sampler # <<>>
    /\ \E n \in WhiteNoiseConstants : n \in DOMAIN params /\ defaults[n] = params[n]
    /\ \E n \in WhiteNoiseConstants : n \notin DOMAIN params

-----------------------------------------------------------------------------
(* cw_exercises: calls of the functions make_fake_pulsar and spittime.     *)
(* A text is a sequence of characters; a number is n / d * 10^e.           *)

\* calls in one session
MaxFnCalls == 2

\* the character beyond ASCII among those of the directory names
NonAscii == {"U+00E9"}

\* the directories that exist, as the prefix a path in them has
ExistingDirs == {<<>>, <<"w", "o", "r", "k", "/">>, <<"c", "a", "f", "U+00E9", "/">>}

\* the values of DIR: a str or a unicode object
DirArgs ==
    {[text |-> d, unicode |-> b] :
        d \in {<<>>, <<"w", "o", "r", "k", "/">>, <<"w", "o", "r", "k">>, <<"t", "m", "p", "/">>, <<"c", "a", "f", "U+00E9", "/">>}, b \in BOOLEAN}

\* what the random draws of one call give: c.to_string('hmsdms'), a str or
\* a unicode object with hours and degrees padded to two digits and the
\* declination signed; the period in ms; the distance in tenths of a kpc
Draws ==
    {[cstr |-> ra \o <<" ">> \o dec, unicode |-> b, period |-> k, dist |-> t] :
        ra \in {<<"0", "5", "h", "2", "3", "m", "3", "4", ".", "5", "s">>, <<"2", "3", "h", "5", "9", "m", "5", "9", ".", "9", "9", "s">>},
        dec \in {<<"-", "6", "9", "d", "4", "5", "m", "2", "2", ".", "1", "s">>, <<"+", "0", "0", "d", "0", "0", "m", "0", "0", "s">>},
        b \in BOOLEAN, k \in {1, 8}, t \in {1, 20}}

\* s.replace(a, b) for one-character a and b
Replace(s, a, b) == [i \in DOMAIN s |-> IF s[i] = a THEN b ELSE s[i]]

\* s[i:j]
Slice(s, i, j) == SubSeq(s, i + 1, IF j < Len(s) THEN j ELSE Len(s))

\* u.encode('ascii', 'ignore') : characters beyond ASCII are left out
EncodeAsciiIgnore(u) == SelectSeq(u, LAMBDA c : c \notin NonAscii)

\* "%0.<digits>f" % (num / den) for a quotient of at most that many decimals
FormatFixed(num, den, digits) ==
    LET RECURSIVE F(_, _)
        F(r, k) ==
            IF k = 0 THEN <<>>
            ELSE <<DigitChars[((r * 10) \div den) + 1]>> \o F((r * 10) % den, k - 1)
    IN IntToChars(num \div den) \o <<".">> \o F(num % den, digits)

\* make_fake_pulsar(DIR) with the draws of the call: the path and the text
\* of the par file, whether the file is written, the exception raised if
\* any, and the value returned.  A str with a character beyond ASCII cannot
\* be joined with a unicode name, nor encoded.
make_fake_pulsar(DIR, draw) ==
    LET hms == Replace(Replace(Split(draw.cstr, " ")[1], "h", ":"), "m", ":")
        dms == Replace(Replace(Split(draw.cstr, " ")[2], "d", ":"), "m", ":")
        RAJ == SubSeq(hms, 1, Len(hms) - 1)
        DECJ == SubSeq(dms, 1, Len(dms) - 1)
        name == <<"J">> \o Slice(RAJ, 0, 2) \o Slice(RAJ, 3, 5) \o Slice(DECJ, 0, 1)
                    \o Slice(DECJ, 1, 3) \o Slice(DECJ, 4, 6)
        output == <<"M", "O", "D", "E", " ", "1", "\n">>
                    \o <<"P", "S", "R", " ", " ", " ", " ", " ", " ">> \o name \o <<"\n">>
                    \o <<"P", "E", "P", "O", "C", "H", " ", " ", " ", "5", "0", "0", "0", "0", ".", "0", "\n">>
                    \o <<"P", "O", "S", "E", "P", "O", "C", "H", " ", " ", " ", "5", "0", "0", "0", "0", ".", "0", "\n">>
                    \o <<"F", "0", " ", " ", " ", " ", " ", " ", " ">> \o FormatFixed(1000, draw.period, 10) \o <<" ", "1", "\n">>
                    \o <<"R", "A", "J", " ", " ", " ", " ", " ", " ">> \o RAJ \o <<" ", "1", "\n">>
                    \o <<"D", "E", "C", "J", " ", " ", " ", " ", " ">> \o DECJ \o <<" ", "1", "\n">>
                    \o <<"P", "X", " ", " ", " ", " ", " ", " ", " ">> \o FormatFixed(10, draw.dist, 5) \o <<" ", "1", "\n">>
        DirPart(path) ==
            LET at == {i \in DOMAIN path : path[i] = "/"}
            IN IF at = {} THEN <<>>
               ELSE SubSeq(path, 1, CHOOSE i \in at : \A j \in at : j <= i)
        filename == DIR.text \o name \o <<".", "p", "a", "r">>
        badStr == ~DIR.unicode /\ \E i \in DOMAIN DIR.text : DIR.text[i] \in NonAscii
        exc == IF badStr /\ draw.unicode THEN "UnicodeDecodeError"
               ELSE IF DirPart(filename) \notin ExistingDirs THEN "IOError"
               ELSE IF badStr THEN "UnicodeDecodeError"
               ELSE ""
    IN [filename |-> filename,
        output |-> output,
        written |-> ~(badStr /\ draw.unicode) /\ DirPart(filename) \in ExistingDirs,
        exc |-> exc,
        value |-> IF exc = "" THEN EncodeAsciiIgnore(filename) ELSE <<>>]

\* par = make_fake_pulsar(DIR)
CallMakeFakePulsar ==
    /\ fnCalls < MaxFnCalls
    /\ \E DIR \in DirArgs, draw \in Draws :
           LET r == make_fake_pulsar(DIR, draw)
           IN /\ fnCall' = [fn |-> "make_fake_pulsar", arg |-> DIR, exc |-> r.exc,
                            value |-> r.value]
              /\ fnFiles' = IF r.written
                            THEN [f \in DOMAIN fnFiles \cup {r.filename} |->
                                     IF f = r.filename THEN r.output ELSE fnFiles[f]]
                            ELSE fnFiles
    /\ fnCalls' = fnCalls + 1
    /\ UNCHANGED notFn

\* the number n / d * 10^e in its one form with d prime to 10 and to n and
\* n no multiple of 10
RECURSIVE Num(_, _, _)
Num(n, d, e) ==
    IF n = 0 THEN [n |-> 0, d |-> 1, e |-> 0]
    ELSE IF d % 2 = 0 THEN Num(n * 5, d \div 2, e - 1)
    ELSE IF d % 5 = 0 THEN Num(n * 2, d \div 5, e - 1)
    ELSE IF n % 10 = 0 THEN Num(n \div 10, d, e + 1)
    ELSE LET RECURSIVE Gcd(_, _)
             Gcd(a, b) == IF b = 0 THEN a ELSE Gcd(b, a % b)
         IN [n |-> n \div Gcd(n, d), d |-> d \div Gcd(n, d), e |-> e]

\* a * b
Times(a, b) == Num(a.n * b.n, a.d * b.d, a.e + b.e)

\* a / b under true division
Over(a, b) == Num(a.n * b.d, a.d * b.n, a.e - b.e)

\* the values of rms: thousandths of a microsecond; print(spittime(8.82))
RmsValues == {Num(k, 1, -3) : k \in {4, 32, 64, 8820}}

\* h = (rms/(32*10**-3))*10**16; return h
spittime(rms) ==
    Times(Over(rms, Times(Num(32, 1, 0), Num(1, 1, -3))), Num(1, 1, 16))

\* spittime(rms)
CallSpittime ==
    /\ fnCalls < MaxFnCalls
    /\ \E rms \in RmsValues :
           fnCall' = [fn |-> "spittime", arg |-> rms, exc |-> "", value |-> spittime(rms)]
    /\ fnCalls' = fnCalls + 1
    /\ UNCHANGED fnFiles
    /\ UNCHANGED notFn

\* a kernel in which the first cells of the notebook have run
InitFn ==
    /\ CmdIdle
    /\ GwbIdle
    /\ CwIdle
    /\ RunIdle
    /\ ImpIdle
    /\ fnFiles = <<>>
    /\ fnCall = [fn |-> ""]
    /\ fnCalls = 0

NextFn ==
    \/ CallMakeFakePulsar
    \/ CallSpittime

SpecCwFn == InitFn /\ [][NextFn]_vars

Returned(f) == fnCalls > 0 /\ fnCall.fn = f /\ fnCall.exc = ""

\* the lines of a text that ends each line with a newline
TextLines(text) == [k \in 1..(LineCount(text) - 1) |-> LineAt(text, k)]

ParKeys == <<<<"M", "O", "D", "E">>, <<"P", "S", "R">>, <<"P", "E", "P", "O", "C", "H">>, <<"P", "O", "S", "E", "P", "O", "C", "H">>, <<"F", "0">>, <<"R", "A", "J">>, <<"D", "E", "C", "J">>, <<"P", "X">>>>

\* C17: when make_fake_pulsar(DIR) returns, the value returned is the path
\* DIR + name + ".par" of a file that exists, whose text is exactly the
\* eight lines MODE, PSR, PEPOCH, POSEPOCH, F0, RAJ, DECJ, PX in that order,
\* name being the name on its PSR line.
C17_ReturnsPathOfParFile ==
    Returned("make_fake_pulsar") =>
        /\ fnCall.value \in DOMAIN fnFiles
        /\ LET text == fnFiles[fnCall.value]
               lines == TextLines(text)
           IN /\ text[Len(text)] = "\n"
              /\ Len(lines) = 8
              /\ \A i \in 1..8 : SplitWhitespace(lines[i])[1] = ParKeys[i]
              /\ fnCall.value = fnCall.arg.text \o SplitWhitespace(lines[2])[2] \o <<".", "p", "a", "r">>

\* C18: spittime(rms) returns (rms / 0.032) * 10^-16, which is linear in
\* rms and is 10^-16 for rms = 0.032.
C18_StrainOfRms ==
    Returned("spittime") =>
        /\ fnCall.value = Times(Over(fnCall.arg, Num(32, 1, -3)), Num(1, 1, -16))
        /\ fnCall.arg = Num(32, 1, -3) => fnCall.value = Num(1, 1, -16)
        /\ \A k \in 1..3 : spittime(Times(Num(k, 1, 0), fnCall.arg)) = Times(Num(k, 1, 0), fnCall.value)

====
